---- MODULE Spec2Model ----
(***************************************************************************)
(* Althea: appointment booking core.                                       *)
(*                                                                         *)
(*   appointment.service.js      createAppointment, validateSlotAvailable, *)
(*                               updateAppointment                         *)
(*   doctor-schedule.service.js  generateAvailableSlots                    *)
(*   conversation.service.js     processIncoming and the session helpers   *)
(*                                                                         *)
(* Time is counted in whole minutes since 1970-01-01T00:00Z.  A time zone  *)
(* is a fixed offset in minutes east of UTC (daylight saving is not        *)
(* modelled).  The database session evaluates EXTRACT(DOW FROM timestamptz)*)
(* in UTC.  JavaScript Date <-> ISO string <-> timestamptz conversions     *)
(* keep millisecond precision, so on whole minutes they carry the instant  *)
(* unchanged; the model passes instants as integers.                       *)
(***************************************************************************)
EXTENDS Integers, Sequences, FiniteSets, TLC

VARIABLES
    now,        \* the clock, now()
    tz,         \* clinics.timezone of the clinic, minutes east of UTC
    wh,         \* table doctor_working_hours
    settings,   \* table doctor_settings: doctor_id -> record or NoSettings
    blocked,    \* table doctor_blocked_slots
    appts,      \* table appointments; appointment_id is the position
    pc,         \* position of each API call in flight
    call,       \* arguments, locals and outcome of each API call
    gen,        \* the last generateAvailableSlots call and its rows
    patients,   \* table patients; patient_id is the position
    contacts,   \* table patient_contacts
    sessions,   \* table whatsapp_sessions; session_id is the position
    lock,       \* row locks on whatsapp_sessions: session_id -> holder or 0
    turn,       \* each processIncoming call in flight: position and locals
    inbox       \* the messages the webhook may be called with: <<phone, text>>

vars == <<now, tz, wh, settings, blocked, appts, pc, call, gen,
          patients, contacts, sessions, lock, turn, inbox>>

storeVars == <<now, tz, wh, settings, blocked, inbox>>

apiVars == <<pc, call>>

peopleVars == <<patients, contacts>>

convVars == <<sessions, lock, turn>>

----------------------------------------------------------------------------
(* Bounds *)

NumProcs == 2
NumTurns == 2

Procs == 1..NumProcs

----------------------------------------------------------------------------
(* Time *)

NULL == -1

DayMin == 24 * 60

\* day number 0 is Thursday 1970-01-01; Postgres DOW has Sunday = 0
DOW(day) == (day + 4) % 7

DateOf(t) == t \div DayMin

TimeOfDay(t) == t % DayMin

\* the first Monday, 1970-01-05
Monday == CHOOSE d \in 0..6 : DOW(d) = 1

At(day, h, m) == day * DayMin + h * 60 + m

\* Postgres tstzrange(lo, hi, '[)') && tstzrange(lo2, hi2, '[)'):
\* an empty range overlaps nothing
Overlaps(lo1, hi1, lo2, hi2) ==
    /\ lo1 < hi1
    /\ lo2 < hi2
    /\ lo1 < hi2
    /\ lo2 < hi1

----------------------------------------------------------------------------
(* Static tables *)

Clinics == {1, 2}

\* doctors(doctor_id, clinic_id)
doctors == {[doctor_id |-> 1, clinic_id |-> 1],
            [doctor_id |-> 2, clinic_id |-> 1]}

Doctors == {d.doctor_id : d \in doctors}

\* patients(patient_id, clinic_id, full_name)
SeedPatients ==
    <<[patient_id |-> 1, clinic_id |-> 1, full_name |-> "Ali"],
      [patient_id |-> 2, clinic_id |-> 2, full_name |-> "Bo"],
      [patient_id |-> 3, clinic_id |-> 1, full_name |-> "Cy"]>>

ActiveStatuses == {"scheduled", "confirmed"}

Statuses == {"scheduled", "confirmed", "completed", "cancelled", "no_show"}

DefaultSlotMinutes == 15
DefaultLeadTimeMin == 60
DefaultBufferMin == 0

NoSettings == [slot_minutes |-> NULL, lead_time_min |-> NULL, buffer_min |-> NULL]

\* COALESCE(s.slot_minutes,15), COALESCE(s.lead_time_min,60), COALESCE(s.buffer_min,0)
SlotMinutes(d) ==
    IF settings[d].slot_minutes = NULL THEN DefaultSlotMinutes ELSE settings[d].slot_minutes

\* the lead time without its default
LeadTimeMinOrNone(d) ==
    IF settings[d].lead_time_min = NULL THEN 0 ELSE settings[d].lead_time_min

LeadTimeMin(d) ==
    IF settings[d].lead_time_min = NULL THEN DefaultLeadTimeMin ELSE settings[d].lead_time_min

BufferMin(d) ==
    IF settings[d].buffer_min = NULL THEN DefaultBufferMin ELSE settings[d].buffer_min

----------------------------------------------------------------------------
(* The appointments table *)

Row(id, c, d, p, lo, hi, st) ==
    [appointment_id |-> id, clinic_id |-> c, doctor_id |-> d, patient_id |-> p,
     start |-> lo, end |-> hi, status |-> st]

IsActive(a) == a.status \in ActiveStatuses

\* a uniqueness constraint on (doctor_id, appointment_ts) in place of the
\* exclusion constraint: only identical ranges conflict
no_overlap_as_unique(rows) ==
    \A i, j \in 1..Len(rows) :
        (/\ i # j
         /\ IsActive(rows[i])
         /\ IsActive(rows[j])
         /\ rows[i].doctor_id = rows[j].doctor_id)
        => ~(rows[i].start = rows[j].start /\ rows[i].end = rows[j].end)

\* Exclusion constraint no_overlap_per_doctor on appointments:
\* EXCLUDE (doctor_id WITH =, appointment_ts WITH &&) over the rows whose
\* status is scheduled or confirmed.  TRUE when the table satisfies it.
no_overlap_per_doctor(rows) ==
    \A i, j \in 1..Len(rows) :
        (/\ i # j
         /\ IsActive(rows[i])
         /\ IsActive(rows[j])
         /\ rows[i].doctor_id = rows[j].doctor_id)
        => ~Overlaps(rows[i].start, rows[i].end, rows[j].start, rows[j].end)

\* the INSERT with start bound to both ends of the range
InsertedRowStartTwice(rows, c) ==
    Row(Len(rows) + 1, c.clinicId, c.doctor_id, c.patient_id, c.start, c.start, "scheduled")

\* INSERT INTO appointments ... RETURNING *: status takes the column default
InsertedRow(rows, c) ==
    Row(Len(rows) + 1, c.clinicId, c.doctor_id, c.patient_id, c.start, c.end, "scheduled")

\* an UPDATE that takes each bound of the range on its own
UpdatedRowEitherBound(a, c) ==
    [a EXCEPT !.start  = IF c.start # NULL THEN c.start ELSE a.start,
              !.end    = IF c.end # NULL THEN c.end ELSE a.end,
              !.status = IF c.status # "" THEN c.status ELSE a.status]

\* UPDATE appointments SET appointment_ts = ..., status = COALESCE($3, status)
\* WHERE appointment_id = $5
UpdatedRow(a, c) ==
    [a EXCEPT !.start  = IF c.start # NULL /\ c.end # NULL THEN c.start ELSE a.start,
              !.end    = IF c.start # NULL /\ c.end # NULL THEN c.end ELSE a.end,
              !.status = IF c.status # "" THEN c.status ELSE a.status]

----------------------------------------------------------------------------
(* validateSlotAvailable *)

\* RULE 1: a working-hours row of the UTC weekday of start that contains the
\* UTC times of day of start and end
InWorkingHours(d, lo, hi) ==
    \E w \in wh :
        /\ w.doctor_id = d
        /\ w.day_of_week = DOW(DateOf(lo))
        /\ w.start_time <= TimeOfDay(lo)
        /\ w.end_time >= TimeOfDay(hi)

\* RULE 2: a blocked range overlapping [start, end)
HitsBlocked(d, lo, hi) ==
    \E b \in blocked : b.doctor_id = d /\ Overlaps(b.start, b.end, lo, hi)

\* the pre-check without RULE 3
HitsNoAppointment(rows, d, lo, hi) == FALSE

\* RULE 3: a scheduled or confirmed appointment overlapping [start, end)
HitsAppointment(rows, d, lo, hi) ==
    \E i \in 1..Len(rows) :
        /\ rows[i].doctor_id = d
        /\ IsActive(rows[i])
        /\ Overlaps(rows[i].start, rows[i].end, lo, hi)

validateSlotAvailable(rows, d, lo, hi) ==
    IF ~InWorkingHours(d, lo, hi) THEN "Not in working hours"
    ELSE IF HitsBlocked(d, lo, hi) THEN "Doctor is unavailable"
    ELSE IF HitsAppointment(rows, d, lo, hi) THEN "Slot overlaps with existing appointment"
    ELSE "valid"

----------------------------------------------------------------------------
(* Conversation sessions *)

Turns == 1..NumTurns

\* the JSON context of a session; {} has every key absent
EmptyContext ==
    [patient_id |-> 0, patient_candidates |-> <<>>, pending_family_name |-> "",
     doctors |-> <<>>, doctor_id |-> 0, selected_date |-> NULL, slots |-> <<>>]

SessionRow(c, ph, st, ctx) == [clinic_id |-> c, phone |-> ph, state |-> st, context |-> ctx]

NoTurn ==
    [pc |-> "idle", from |-> "", text |-> "", state |-> "", context |-> EmptyContext,
     wstate |-> "", wcontext |-> EmptyContext, idx |-> 0, created |-> 0,
     replies |-> <<>>, error |-> ""]

\* nobody is talking to the bot
NoConversation ==
    /\ sessions = <<>>
    /\ lock = <<>>
    /\ turn = [t \in Turns |-> NoTurn]
    /\ inbox = {}

----------------------------------------------------------------------------
(* API calls: createAppointment and updateAppointment *)

NoCall ==
    [kind |-> "none", clinicId |-> 0, doctor_id |-> 0, patient_id |-> 0,
     appointmentId |-> 0, start |-> NULL, end |-> NULL, status |-> "",
     result |-> "", reason |-> ""]

CreateCall(c, d, p, lo, hi) ==
    [NoCall EXCEPT !.kind = "create", !.clinicId = c, !.doctor_id = d,
                   !.patient_id = p, !.start = lo, !.end = hi]

UpdateCall(c, id, lo, hi, st) ==
    [NoCall EXCEPT !.kind = "update", !.clinicId = c, !.appointmentId = id,
                   !.start = lo, !.end = hi, !.status = st]

Finish(p, res, why) ==
    /\ pc' = [pc EXCEPT ![p] = "done"]
    /\ call' = [call EXCEPT ![p].result = res, ![p].reason = why]

\* the requested ranges, on the first Monday
RA == [lo |-> At(Monday, 9, 0), hi |-> At(Monday, 9, 30)]
RB == [lo |-> At(Monday, 9, 15), hi |-> At(Monday, 9, 45)]
RC == [lo |-> At(Monday, 9, 30), hi |-> At(Monday, 10, 0)]
RK == [lo |-> At(Monday, 10, 30), hi |-> At(Monday, 11, 0)]
RW == [lo |-> At(Monday, 11, 0), hi |-> At(Monday, 11, 30)]

CreateRequests ==
    {CreateCall(1, d, 1, r.lo, r.hi) : d \in Doctors, r \in {RA, RB, RC}}
    \cup {CreateCall(1, 1, 1, r.lo, r.hi) : r \in {RK, RW}}
    \cup {CreateCall(2, 1, 1, RA.lo, RA.hi), CreateCall(1, 1, 2, RA.lo, RA.hi)}

UpdateTimes ==
    {<<NULL, NULL>>, <<RB.lo, RB.hi>>, <<RC.lo, RC.hi>>, <<RB.lo, NULL>>}

UpdateStatuses == {"", "cancelled", "confirmed"}

\* n rows exist: ids 1..n are found, id n + 1 is not, and clinic 2 owns none
UpdateRequests(n) ==
    {UpdateCall(1, id, t[1], t[2], st) :
        id \in 1..(n + 1), t \in UpdateTimes, st \in UpdateStatuses}
    \cup {UpdateCall(2, id, NULL, NULL, "cancelled") : id \in 1..n}

\* createAppointment: assertDoctorInClinic, assertPatientInClinic
CreateBegin(p) ==
    /\ pc[p] = "idle"
    /\ \E c \in CreateRequests :
        IF ~\E d \in doctors : d.doctor_id = c.doctor_id /\ d.clinic_id = c.clinicId
        THEN /\ pc' = [pc EXCEPT ![p] = "done"]
             /\ call' = [call EXCEPT ![p] = [c EXCEPT !.result = "Error",
                             !.reason = "Doctor does not belong to this clinic"]]
        ELSE IF ~\E i \in 1..Len(patients) :
                    patients[i].patient_id = c.patient_id /\ patients[i].clinic_id = c.clinicId
        THEN /\ pc' = [pc EXCEPT ![p] = "done"]
             /\ call' = [call EXCEPT ![p] = [c EXCEPT !.result = "Error",
                             !.reason = "Patient does not belong to this clinic"]]
        ELSE /\ pc' = [pc EXCEPT ![p] = "check"]
             /\ call' = [call EXCEPT ![p] = c]
    /\ UNCHANGED <<storeVars, appts, gen, peopleVars, convVars>>

\* createAppointment: the pre-check by validateSlotAvailable
CreateCheck(p) ==
    /\ pc[p] = "check"
    /\ LET v == validateSlotAvailable(appts, call[p].doctor_id, call[p].start, call[p].end)
       IN IF v = "valid"
          THEN pc' = [pc EXCEPT ![p] = "insert"] /\ UNCHANGED call
          ELSE Finish(p, "SlotUnavailable", v)
    /\ UNCHANGED <<storeVars, appts, gen, peopleVars, convVars>>

\* createAppointment: the INSERT, which the exclusion constraint may reject
CreateInsert(p) ==
    /\ pc[p] = "insert"
    /\ LET rows == Append(appts, InsertedRow(appts, call[p]))
       IN IF no_overlap_per_doctor(rows)
          THEN /\ appts' = rows
               /\ pc' = [pc EXCEPT ![p] = "done"]
               /\ call' = [call EXCEPT ![p].result = "ok",
                                       ![p].appointmentId = Len(rows)]
          ELSE /\ Finish(p, "StructuralConflict", "no_overlap_per_doctor")
               /\ UNCHANGED appts
    /\ UNCHANGED <<storeVars, gen, peopleVars, convVars>>

\* updateAppointment: fetch the row by appointment_id and clinic_id
UpdateBegin(p) ==
    /\ pc[p] = "idle"
    /\ \E u \in UpdateRequests(Len(appts)) :
        LET id == u.appointmentId
        IN IF id \in 1..Len(appts) /\ appts[id].clinic_id = u.clinicId
           THEN /\ pc' = [pc EXCEPT ![p] = "ucheck"]
                /\ call' = [call EXCEPT ![p] = [u EXCEPT !.doctor_id = appts[id].doctor_id]]
           ELSE /\ pc' = [pc EXCEPT ![p] = "done"]
                /\ call' = [call EXCEPT ![p] = [u EXCEPT !.result = "NotFound",
                                !.reason = "Appointment not found"]]
    /\ UNCHANGED <<storeVars, appts, gen, peopleVars, convVars>>

\* updateAppointment: if (start && end) validate the slot again
UpdateCheck(p) ==
    /\ pc[p] = "ucheck"
    /\ IF call[p].start # NULL /\ call[p].end # NULL
       THEN LET v == validateSlotAvailable(appts, call[p].doctor_id, call[p].start, call[p].end)
            IN IF v = "valid"
               THEN pc' = [pc EXCEPT ![p] = "uwrite"] /\ UNCHANGED call
               ELSE Finish(p, "SlotUnavailable", v)
       ELSE pc' = [pc EXCEPT ![p] = "uwrite"] /\ UNCHANGED call
    /\ UNCHANGED <<storeVars, appts, gen, peopleVars, convVars>>

\* updateAppointment: the UPDATE, which the exclusion constraint may reject
UpdateWrite(p) ==
    /\ pc[p] = "uwrite"
    /\ LET id == call[p].appointmentId
           rows == [appts EXCEPT ![id] = UpdatedRow(appts[id], call[p])]
       IN IF no_overlap_per_doctor(rows)
          THEN appts' = rows /\ Finish(p, "ok", "")
          ELSE UNCHANGED appts /\ Finish(p, "StructuralConflict", "no_overlap_per_doctor")
    /\ UNCHANGED <<storeVars, gen, peopleVars, convVars>>

----------------------------------------------------------------------------
(* The booking transactor under concurrent calls *)

NoGen ==
    [clinicId |-> 0, doctor_id |-> 0, date |-> NULL, at |-> NULL, error |-> "", rows |-> <<>>]

\* both doctors work Monday 09:00-11:00 UTC; doctor 1 is blocked 10:30-11:00
\* and has settings 30/60/15; doctor 2 has no settings record
BookWh ==
    {[doctor_id |-> d, day_of_week |-> 1, start_time |-> 9 * 60, end_time |-> 11 * 60] :
        d \in Doctors}

BookSettings ==
    [d \in Doctors |->
        IF d = 1 THEN [slot_minutes |-> 30, lead_time_min |-> 60, buffer_min |-> 15]
        ELSE NoSettings]

BookBlocked == {[doctor_id |-> 1, start |-> RK.lo, end |-> RK.hi]}

\* stores earlier calls have left behind
BookSeeds ==
    {<<>>,
     <<Row(1, 1, 1, 1, RA.lo, RA.hi, "scheduled")>>,
     <<Row(1, 1, 1, 1, RA.lo, RA.hi, "cancelled")>>}

Init ==
    /\ now = At(Monday, 8, 15)
    /\ tz = 0
    /\ wh = BookWh
    /\ settings = BookSettings
    /\ blocked = BookBlocked
    /\ appts \in BookSeeds
    /\ pc = [p \in Procs |-> "idle"]
    /\ call = [p \in Procs |-> NoCall]
    /\ gen = NoGen
    /\ patients = SeedPatients
    /\ contacts = {}
    /\ NoConversation

Next ==
    \E p \in Procs :
        \/ CreateBegin(p)
        \/ CreateCheck(p)
        \/ CreateInsert(p)
        \/ UpdateBegin(p)
        \/ UpdateCheck(p)
        \/ UpdateWrite(p)

Spec == Init /\ [][Next]_vars

----------------------------------------------------------------------------
(* Properties of the booking transactor *)

Max(a, b) == IF a >= b THEN a ELSE b

Min(a, b) == IF a <= b THEN a ELSE b

\* two half-open ranges share an instant
Intersect(lo1, hi1, lo2, hi2) == Max(lo1, lo2) < Min(hi1, hi2)

ActivePairs ==
    {<<i, j>> \in (1..Len(appts)) \X (1..Len(appts)) :
        /\ i < j
        /\ IsActive(appts[i])
        /\ IsActive(appts[j])
        /\ appts[i].doctor_id = appts[j].doctor_id}

OthersIdle(S) == \A r \in Procs \ S : pc[r] = "idle"

\* C1: in every reachable state no doctor has two appointments with status
\* scheduled or confirmed whose half-open time ranges intersect.
C1_NoOverlap ==
    \A x \in ActivePairs :
        ~Intersect(appts[x[1]].start, appts[x[1]].end, appts[x[2]].start, appts[x[2]].end)

\* two createAppointment calls for overlapping ranges of one doctor have both
\* run their pre-check before either insert, and both have finished
C1_Witness ==
    \E p, q \in Procs :
        /\ p # q
        /\ pc[p] = "done" /\ pc[q] = "done"
        /\ call[p].kind = "create" /\ call[q].kind = "create"
        /\ call[p].doctor_id = call[q].doctor_id
        /\ Intersect(call[p].start, call[p].end, call[q].start, call[q].end)
        /\ call[p].result = "ok"
        /\ call[q].result = "StructuralConflict"

\* the rows that neither p nor q inserted
RowsBefore(p, q) ==
    SelectSeq(appts, LAMBDA a :
        ~(\E r \in {p, q} : call[r].result = "ok" /\ call[r].appointmentId = a.appointment_id))

RacingCreates(p, q) ==
    /\ p # q
    /\ pc[p] = "done" /\ pc[q] = "done"
    /\ call[p].kind = "create" /\ call[q].kind = "create"
    /\ call[p].result # "Error" /\ call[q].result # "Error"
    /\ call[p].doctor_id = call[q].doctor_id
    /\ Intersect(call[p].start, call[p].end, call[q].start, call[q].end)
    /\ OthersIdle({p, q})
    /\ \A r \in {p, q} :
         validateSlotAvailable(RowsBefore(p, q), call[r].doctor_id,
                               call[r].start, call[r].end) = "valid"

\* C2: of two createAppointment calls for the same doctor with overlapping
\* ranges, each valid on its own, run in any interleaving, exactly one returns
\* an appointment and the other fails with SlotUnavailable or
\* StructuralConflict.
C2_RaceResolution ==
    \A p, q \in Procs :
        RacingCreates(p, q) =>
            \/ /\ call[p].result = "ok"
               /\ call[q].result \in {"SlotUnavailable", "StructuralConflict"}
            \/ /\ call[q].result = "ok"
               /\ call[p].result \in {"SlotUnavailable", "StructuralConflict"}

\* the race was lost at the insert, after both pre-checks had passed
C2_Witness ==
    \E p, q \in Procs :
        /\ RacingCreates(p, q)
        /\ call[p].result = "ok"
        /\ call[q].result = "StructuralConflict"
        /\ call[p].start # call[q].start

\* C7: a createAppointment request whose start is earlier than now plus the
\* doctor's lead time is rejected with SlotUnavailable (and inserts nothing).
C7_LeadTimeEnforced ==
    \A p \in Procs :
        (/\ pc[p] = "done"
         /\ call[p].kind = "create"
         /\ call[p].result # "Error"
         /\ call[p].start < now + LeadTimeMin(call[p].doctor_id))
        => call[p].result = "SlotUnavailable"

\* C8: under a fixed buffer b no two active appointments of one doctor are
\* closer than b minutes apart: the range of one, expanded by b on both
\* sides, never overlaps the other.
C8_BufferEnforced ==
    \A x \in ActivePairs :
        LET a == appts[x[1]]
            b == appts[x[2]]
            buf == BufferMin(a.doctor_id)
        IN ~Intersect(a.start - buf, a.end + buf, b.start, b.end)

\* C9: rescheduling a scheduled or confirmed appointment to a range that
\* overlaps its own current range but no other appointment and no blocked
\* interval, and lies inside working hours, succeeds and stores the new range.
C9_RescheduleExcludesSelf ==
    \A p \in Procs :
        LET c == call[p]
            id == c.appointmentId
        IN (/\ pc[p] = "done"
            /\ c.kind = "update"
            /\ c.result # "NotFound"
            /\ c.start # NULL /\ c.end # NULL
            /\ c.status \in {"", "confirmed"}
            /\ OthersIdle({p})
            /\ InWorkingHours(c.doctor_id, c.start, c.end)
            /\ ~HitsBlocked(c.doctor_id, c.start, c.end)
            /\ \A i \in 1..Len(appts) :
                 (i # id /\ IsActive(appts[i]) /\ appts[i].doctor_id = c.doctor_id)
                 => ~Intersect(appts[i].start, appts[i].end, c.start, c.end)
            /\ c.result # "ok" =>
                 /\ IsActive(appts[id])
                 /\ Intersect(appts[id].start, appts[id].end, c.start, c.end))
           => /\ c.result = "ok"
              /\ appts[id].start = c.start
              /\ appts[id].end = c.end

\* C10: every updateAppointment call (a reschedule, a status change, or both
\* together), alone or racing with createAppointment, leaves the table with
\* no doctor having two active appointments with intersecting ranges.
C10_UpdateKeepsNoOverlap ==
    [][(\E p \in Procs : pc[p] = "uwrite" /\ pc'[p] = "done")
        => \A i, j \in 1..Len(appts') :
             (/\ i # j
              /\ IsActive(appts'[i]) /\ IsActive(appts'[j])
              /\ appts'[i].doctor_id = appts'[j].doctor_id)
             => ~Intersect(appts'[i].start, appts'[i].end, appts'[j].start, appts'[j].end)]_vars

\* an updateAppointment that sets status confirmed raced with a
\* createAppointment for the same doctor, and the store refused the later of
\* the two writes
C10_Witness ==
    \E p, q \in Procs :
        /\ pc[p] = "done" /\ pc[q] = "done"
        /\ call[p].kind = "update" /\ call[q].kind = "create"
        /\ call[p].status = "confirmed"
        /\ call[p].doctor_id = call[q].doctor_id
        /\ {call[p].result, call[q].result} = {"ok", "StructuralConflict"}

----------------------------------------------------------------------------
(* generateAvailableSlots *)

\* (date + time) AT TIME ZONE zone: the instant of a local wall-clock time
LocalToInstant(date, time, zone) == date * DayMin + time - zone

\* meta.target_date: $3::date, or (now() AT TIME ZONE c.timezone)::date
TargetDate(date, at, zone) == IF date # NULL THEN date ELSE DateOf(at + zone)

\* wh: the doctor's working-hours rows of the target date's weekday
RulesOn(d, day) == {w \in wh : w.doctor_id = d /\ w.day_of_week = DOW(day)}

\* a series that stops one step early
SeriesStopsEarly(lo, stop, step) ==
    {lo + k * step : k \in {n \in 0..((stop - lo) \div step) : lo + n * step < stop}}

\* generate_series(lo, stop, step): lo, lo + step, ... while <= stop
generate_series(lo, stop, step) ==
    IF stop < lo THEN {}
    ELSE {lo + k * step : k \in 0..((stop - lo) \div step)}

\* candidate_slots: one row per working-hours rule and slot start
candidate_slots(d, day, zone) ==
    UNION {{<<w, t>> : t \in
                generate_series(LocalToInstant(day, w.start_time, zone),
                                LocalToInstant(day, w.end_time, zone) - SlotMinutes(d),
                                SlotMinutes(d))} :
           w \in RulesOn(d, day)}

\* filtered: slot_start >= now() + lead_time_min
filtered(C, d, at) == {c \in C : c[2] >= at + LeadTimeMin(d)}

\* no_blocked with both ranges closed: a slot that touches a blocked range goes
no_blocked_closed(C, d) ==
    {c \in C : ~\E b \in blocked :
        b.doctor_id = d /\ b.start <= c[2] + SlotMinutes(d) /\ c[2] <= b.end}

\* no_blocked: no blocked_range && [slot_start, slot_end)
no_blocked(C, d) ==
    {c \in C : ~\E b \in blocked :
        b.doctor_id = d /\ Overlaps(b.start, b.end, c[2], c[2] + SlotMinutes(d))}

\* no_appointments with the slot itself in place of the buffered range
no_appointments_unbuffered(C, d) ==
    {c \in C : ~\E i \in 1..Len(appts) :
        /\ appts[i].doctor_id = d
        /\ IsActive(appts[i])
        /\ Overlaps(appts[i].start, appts[i].end, c[2], c[2] + SlotMinutes(d))}

\* no_appointments: no scheduled or confirmed appointment &&
\* [slot_start - buffer_min, slot_end + buffer_min)
no_appointments(C, d) ==
    {c \in C : ~\E i \in 1..Len(appts) :
        /\ appts[i].doctor_id = d
        /\ IsActive(appts[i])
        /\ Overlaps(appts[i].start, appts[i].end,
                    c[2] - BufferMin(d), c[2] + SlotMinutes(d) + BufferMin(d))}

\* ORDER BY slot_start, and the projection to the returned columns
RECURSIVE OrderBySlotStart(_, _)
OrderBySlotStart(C, d) ==
    IF C = {} THEN <<>>
    ELSE LET m == CHOOSE x \in C : \A y \in C : x[2] <= y[2]
         IN <<[slot_start |-> m[2], slot_end |-> m[2] + SlotMinutes(d),
               slot_minutes |-> SlotMinutes(d)]>>
            \o OrderBySlotStart(C \ {m}, d)

generateAvailableSlots(d, date, at, zone) ==
    LET day == TargetDate(date, at, zone)
    IN OrderBySlotStart(
           no_appointments(no_blocked(filtered(candidate_slots(d, day, zone), d, at), d), d), d)

\* generateAvailableSlots(clinicId, doctorId, date): assertDoctorInClinic, then
\* the one SQL statement, evaluated at now()
Generate ==
    \E c \in Clinics, d \in Doctors, date \in {NULL, Monday, Monday + 1} :
        /\ gen' = IF \E x \in doctors : x.doctor_id = d /\ x.clinic_id = c
                  THEN [clinicId |-> c, doctor_id |-> d, date |-> date, at |-> now,
                        error |-> "", rows |-> generateAvailableSlots(d, date, now, tz)]
                  ELSE [clinicId |-> c, doctor_id |-> d, date |-> date, at |-> now,
                        error |-> "Doctor not found in this clinic", rows |-> <<>>]
        /\ UNCHANGED <<storeVars, appts, apiVars, peopleVars, convVars>>

----------------------------------------------------------------------------
(* The generator over stores of one clinic, in UTC or at UTC+05:30 *)

Zones == {0, 5 * 60 + 30}

\* working-hours rows: two overlapping Monday shifts and a Tuesday shift that
\* the slot length does not divide
GenRules ==
    {[doctor_id |-> 1, day_of_week |-> 1, start_time |-> 9 * 60, end_time |-> 10 * 60 + 30],
     [doctor_id |-> 1, day_of_week |-> 1, start_time |-> 10 * 60, end_time |-> 11 * 60],
     [doctor_id |-> 1, day_of_week |-> 2, start_time |-> 9 * 60, end_time |-> 9 * 60 + 40]}

GenSettings ==
    {NoSettings,
     [slot_minutes |-> 30, lead_time_min |-> 0, buffer_min |-> 15],
     [slot_minutes |-> 30, lead_time_min |-> 60, buffer_min |-> 0]}

InitGen ==
    /\ tz \in Zones
    /\ now \in {LocalToInstant(Monday, 6 * 60, tz), LocalToInstant(Monday, 8 * 60 + 30, tz)}
    /\ wh \in SUBSET GenRules
    /\ settings \in {[d \in Doctors |-> IF d = 1 THEN x ELSE NoSettings] : x \in GenSettings}
    /\ blocked \in {{}} \cup
         {{[doctor_id |-> 1,
            start |-> LocalToInstant(Monday, b[1], tz),
            end |-> LocalToInstant(Monday, b[2], tz)]} :
             b \in {<<9 * 60 + 40, 9 * 60 + 50>>, <<9 * 60 + 30, 10 * 60>>}}
    /\ appts \in {<<>>} \cup
         {<<Row(1, 1, 1, 1, LocalToInstant(Monday, h * 60, tz),
                LocalToInstant(Monday, h * 60 + 30, tz), st)>> :
             h \in {9, 10}, st \in Statuses}
    /\ pc = [p \in Procs |-> "idle"]
    /\ call = [p \in Procs |-> NoCall]
    /\ gen = NoGen
    /\ patients = SeedPatients
    /\ contacts = {}
    /\ NoConversation

NextGen == Generate

SpecGen == InitGen /\ [][NextGen]_vars

----------------------------------------------------------------------------
(* Properties of the generator *)

Generated == gen.doctor_id # 0 /\ gen.error = ""

\* C5: every slot returned by generateAvailableSlots is a range that the
\* pre-check of createAppointment (validateSlotAvailable) accepts against the
\* same store, also for a clinic whose time zone is not UTC.
C5_GeneratorSound ==
    Generated =>
        \A i \in 1..Len(gen.rows) :
            validateSlotAvailable(appts, gen.doctor_id,
                                  gen.rows[i].slot_start, gen.rows[i].slot_end) = "valid"

GenDay == TargetDate(gen.date, gen.at, tz)

WindowStart(w) == LocalToInstant(GenDay, w.start_time, tz)

WindowEnd(w) == LocalToInstant(GenDay, w.end_time, tz)

\* how often the range [t, t + slot length) occurs in the returned list
Occurrences(t) ==
    Cardinality({i \in 1..Len(gen.rows) :
        /\ gen.rows[i].slot_start = t
        /\ gen.rows[i].slot_end = t + SlotMinutes(gen.doctor_id)})

\* [t, t + slot length) meets no blocked interval, its buffer-expanded range
\* meets no active appointment, and it starts after now + lead time
Bookable(t) ==
    LET d == gen.doctor_id
        L == SlotMinutes(d)
    IN /\ \A b \in blocked : b.doctor_id = d => ~Intersect(b.start, b.end, t, t + L)
       /\ \A i \in 1..Len(appts) :
            (appts[i].doctor_id = d /\ IsActive(appts[i]))
            => ~Intersect(appts[i].start, appts[i].end, t - BufferMin(d), t + L + BufferMin(d))
       /\ t > gen.at + LeadTimeMin(d)

Contains(w, t) == WindowStart(w) <= t /\ t + SlotMinutes(gen.doctor_id) <= WindowEnd(w)

OnGrid(w, t) == Contains(w, t) /\ (t - WindowStart(w)) % SlotMinutes(gen.doctor_id) = 0

\* C6 as stated: every bookable sub-range of slot length of a working-hour
\* window of the target weekday occurs in the list once per rule whose window
\* holds it.
C6_EverySubRange ==
    Generated =>
        \A w \in RulesOn(gen.doctor_id, GenDay) :
            \A t \in WindowStart(w)..(WindowEnd(w) - SlotMinutes(gen.doctor_id)) :
                Bookable(t) =>
                    Occurrences(t) =
                        Cardinality({v \in RulesOn(gen.doctor_id, GenDay) : Contains(v, t)})

\* C6 (amended): every bookable sub-range of slot length of a working-hour
\* window of the target weekday that starts a whole number of slot lengths
\* after the start of a rule's window occurs in the list exactly once for
\* each rule on whose grid it lies.
C6_EveryGridSlot ==
    Generated =>
        \A w \in RulesOn(gen.doctor_id, GenDay) :
            \A t \in WindowStart(w)..(WindowEnd(w) - SlotMinutes(gen.doctor_id)) :
                (OnGrid(w, t) /\ Bookable(t)) =>
                    Occurrences(t) =
                        Cardinality({v \in RulesOn(gen.doctor_id, GenDay) : OnGrid(v, t)})

\* two overlapping rules both produced the same slot, next to a slot that an
\* appointment's buffer removed
C6_Witness ==
    /\ Generated
    /\ BufferMin(gen.doctor_id) > 0
    /\ \E i \in 1..Len(appts) : IsActive(appts[i])
    /\ \E i, j \in 1..Len(gen.rows) : i < j /\ gen.rows[i] = gen.rows[j]
    /\ \E w \in RulesOn(gen.doctor_id, GenDay) :
         \E t \in WindowStart(w)..(WindowEnd(w) - SlotMinutes(gen.doctor_id)) :
            OnGrid(w, t) /\ Occurrences(t) = 0

----------------------------------------------------------------------------
(* processIncoming: reading the message *)

Phones == {"p1", "p2"}

Texts == {"book", "book for my son", "1", "2", "9", "2nd", "Sara Khan",
          "today", "tomorrow", ""}

\* the messages that arrive: anything from p1, a first "book" from p2
Inbound == {<<"p1", x>> : x \in Texts} \cup {<<"p2", "book">>}

\* parseInt((text || "").trim(), 10): the leading digits, whatever follows
\* them; 0 stands for NaN, which every caller treats as it treats 0
ParseInt(text) ==
    CASE text = "1" -> 1
      [] text = "2" -> 2
      [] text = "9" -> 9
      [] text = "2nd" -> 2
      [] OTHER -> 0

\* detectIntentAndFlags: the keyword tests on the lower-cased text
detectIntentAndFlags(text) ==
    CASE text = "book" -> [intent |-> "booking", forOther |-> FALSE]
      [] text = "book for my son" -> [intent |-> "booking", forOther |-> TRUE]
      [] text = "cancel" -> [intent |-> "cancel", forOther |-> FALSE]
      [] text = "hi" -> [intent |-> "greeting", forOther |-> FALSE]
      [] OTHER -> [intent |-> "none", forOther |-> FALSE]

\* ask_date: today or tomorrow, the server's date in UTC, or a YYYY-MM-DD
\* literal (1970-01-05 is the first Monday)
ParseDate(text, at) ==
    CASE text = "today" -> DateOf(at)
      [] text = "tomorrow" -> DateOf(at) + 1
      [] text = "1970-01-05" -> Monday
      [] OTHER -> NULL

\* the relationship menu, lower-cased
RelationshipOf(idx) ==
    CASE idx = 1 -> "son"
      [] idx = 2 -> "daughter"
      [] idx = 3 -> "wife"
      [] idx = 4 -> "husband"
      [] idx = 5 -> "mother"
      [] idx = 6 -> "father"
      [] OTHER -> "other"

\* a set of integers as an ascending sequence
RECURSIVE Ascending(_)
Ascending(S) ==
    IF S = {} THEN <<>>
    ELSE LET m == CHOOSE x \in S : \A y \in S : x <= y
         IN <<m>> \o Ascending(S \ {m})

RECURSIVE Descending(_)
Descending(S) ==
    IF S = {} THEN <<>>
    ELSE LET m == CHOOSE x \in S : \A y \in S : x >= y
         IN <<m>> \o Descending(S \ {m})

\* fetchDoctorsSimple: the clinic's doctors ORDER BY doctor_id
fetchDoctorsSimple(c) == Ascending({d.doctor_id : d \in {x \in doctors : x.clinic_id = c}})

\* the patients linked to the phone in the clinic
LinkedPatients(c, ph, primary) ==
    {k.patient_id : k \in {x \in contacts :
        x.clinic_id = c /\ x.phone = ph /\ x.is_primary = primary}}

\* the lookup cut down to its first primary row
FoundPrimaryOnly(c, ph) == Descending(LinkedPatients(c, ph, TRUE))

\* idle: ORDER BY pc.is_primary DESC NULLS LAST, p.patient_id DESC
FoundPatients(c, ph) ==
    Descending(LinkedPatients(c, ph, TRUE)) \o Descending(LinkedPatients(c, ph, FALSE))

\* the WHERE clause without the phone
SessionIdsOfClinic(c, ph) ==
    {i \in 1..Len(sessions) : sessions[i].clinic_id = c}

SessionIds(c, ph) ==
    {i \in 1..Len(sessions) : sessions[i].clinic_id = c /\ sessions[i].phone = ph}

\* whatsapp_sessions without a key
no_session_key(rows) == TRUE

\* unique key of whatsapp_sessions on (clinic_id, phone)
one_session_per_phone(rows) ==
    \A i, j \in 1..Len(rows) :
        (rows[i].clinic_id = rows[j].clinic_id /\ rows[i].phone = rows[j].phone) => i = j

----------------------------------------------------------------------------
(* processIncoming: one turn per inbound message *)

ClinicOfWebhook == CHOOSE c \in Clinics : \A x \in Clinics : c <= x

\* a patient_contacts row of the clinic
Contact(p, ph, rel, primary) ==
    [clinic_id |-> ClinicOfWebhook, patient_id |-> p, phone |-> ph,
     relationship |-> rel, is_primary |-> primary]

DoctorInClinic(d, c) == \E x \in doctors : x.doctor_id = d /\ x.clinic_id = c

\* the turn goes on to updateSession with the state and context it computed
WriteNext(t, st, ctx, rs) ==
    turn' = [turn EXCEPT ![t] = [@ EXCEPT !.pc = "write", !.wstate = st,
                                          !.wcontext = ctx, !.replies = rs]]

\* the turn returns its replies without writing the session
ReplyOnly(t, rs) ==
    turn' = [turn EXCEPT ![t] = [@ EXCEPT !.pc = "done", !.replies = rs]]

\* an exception leaves processIncoming
Throw(t, e) ==
    turn' = [turn EXCEPT ![t] = [@ EXCEPT !.pc = "failed", !.error = e]]

Goto(t, label, idx) ==
    turn' = [turn EXCEPT ![t] = [@ EXCEPT !.pc = label, !.idx = idx]]

\* getOrCreateSession: BEGIN; SELECT ... FOR UPDATE waits for the row lock;
\* turns are numbered in the order in which they get here
TurnBegin(t) ==
    /\ turn[t].pc = "idle"
    /\ \A u \in Turns : u < t => turn[u].pc # "idle"
    /\ \E m \in inbox :
        LET c == ClinicOfWebhook
            ph == m[1]
            text == m[2]
            ids == SessionIds(c, ph)
            started == [turn[t] EXCEPT !.from = ph, !.text = text]
        IN \/ /\ ids = {}
              /\ turn' = [turn EXCEPT ![t] = [started EXCEPT !.pc = "create"]]
              /\ UNCHANGED lock
           \/ /\ ids # {}
              /\ \A i \in ids : lock[i] = 0
              /\ LET i == CHOOSE x \in ids : \A y \in ids : x <= y
                 IN /\ lock' = [lock EXCEPT ![i] = t]
                    /\ turn' = [turn EXCEPT ![t] =
                           [started EXCEPT !.pc = "locked",
                                           !.state = sessions[i].state,
                                           !.context = sessions[i].context]]
    /\ UNCHANGED <<storeVars, appts, apiVars, gen, peopleVars, sessions>>

\* getOrCreateSession, row found: UPDATE last_interaction_at; COMMIT, which
\* releases the row lock; the row read is returned
TurnCommit(t) ==
    /\ turn[t].pc = "locked"
    /\ lock' = [i \in DOMAIN lock |-> IF lock[i] = t THEN 0 ELSE lock[i]]
    /\ turn' = [turn EXCEPT ![t].pc = "dispatch"]
    /\ UNCHANGED <<storeVars, appts, apiVars, gen, peopleVars, sessions>>

\* getOrCreateSession, no row: INSERT (state idle, context {}); COMMIT
TurnCreate(t) ==
    /\ turn[t].pc = "create"
    /\ LET rows == Append(sessions,
                       SessionRow(ClinicOfWebhook, turn[t].from, "idle", EmptyContext))
       IN IF one_session_per_phone(rows)
          THEN /\ sessions' = rows
               /\ lock' = Append(lock, 0)
               /\ turn' = [turn EXCEPT ![t] = [@ EXCEPT !.pc = "dispatch",
                               !.state = "idle", !.context = EmptyContext]]
          ELSE /\ Throw(t, "unique_violation")
               /\ UNCHANGED <<sessions, lock>>
    /\ UNCHANGED <<storeVars, appts, apiVars, gen, peopleVars>>

\* updateSession / resetSession: UPDATE every row of the clinic and phone; the
\* statement waits while another transaction holds a lock on such a row
TurnWrite(t) ==
    /\ turn[t].pc = "write"
    /\ LET ids == SessionIds(ClinicOfWebhook, turn[t].from)
       IN /\ \A i \in ids : lock[i] = 0
          /\ sessions' = [i \in DOMAIN sessions |->
                 IF i \in ids
                 THEN [sessions[i] EXCEPT !.state = turn[t].wstate,
                                          !.context = turn[t].wcontext]
                 ELSE sessions[i]]
    /\ turn' = [turn EXCEPT ![t].pc = "done"]
    /\ UNCHANGED <<storeVars, appts, apiVars, gen, peopleVars, lock>>

\* state idle
DispatchIdle(t) ==
    LET x == turn[t]
        found == FoundPatients(ClinicOfWebhook, x.from)
        f == detectIntentAndFlags(x.text)
    IN IF f.intent # "booking" THEN ReplyOnly(t, <<"greeting">>)
       ELSE IF f.forOther
            THEN WriteNext(t, "ask_family_member_name", EmptyContext, <<"who_for">>)
       ELSE IF Len(found) = 0
            THEN WriteNext(t, "ask_patient_or_other", EmptyContext, <<"no_profile">>)
       ELSE IF Len(found) = 1
            THEN WriteNext(t, "ask_patient_or_other",
                           [x.context EXCEPT !.patient_id = found[1]], <<"found_profile">>)
       ELSE WriteNext(t, "ask_existing_patient_choice",
                      [x.context EXCEPT !.patient_candidates = found], <<"found_many">>)

\* state ask_patient_or_other
DispatchPatientOrOther(t) ==
    LET x == turn[t]
        choice == ParseInt(x.text)
    IN IF choice = 1
       THEN IF x.context.patient_id = 0
            THEN WriteNext(t, "ask_family_member_name", EmptyContext, <<"your_name">>)
            ELSE WriteNext(t, "ask_doctor",
                           [x.context EXCEPT !.doctors = fetchDoctorsSimple(ClinicOfWebhook)],
                           <<"which_doctor", "doctor_list">>)
       ELSE IF choice = 2
            THEN WriteNext(t, "ask_family_member_name", EmptyContext, <<"patient_name">>)
       ELSE ReplyOnly(t, <<"reply_1_or_2">>)

\* state ask_existing_patient_choice
DispatchExistingPatientChoice(t) ==
    LET x == turn[t]
        candidates == x.context.patient_candidates
        idx == ParseInt(x.text)
    IN IF idx = 0 \/ idx < 1 \/ idx > Len(candidates) + 1
       THEN ReplyOnly(t, <<"invalid_option">>)
       ELSE IF idx = Len(candidates) + 1
            THEN WriteNext(t, "ask_family_member_name", EmptyContext, <<"patient_name">>)
       ELSE WriteNext(t, "ask_doctor",
                      [x.context EXCEPT !.patient_id = candidates[idx],
                                        !.doctors = fetchDoctorsSimple(ClinicOfWebhook)],
                      <<"booking_for", "doctor_list">>)

\* state ask_family_member_name
DispatchFamilyMemberName(t) ==
    LET x == turn[t]
    IN IF x.text = ""
       THEN ReplyOnly(t, <<"need_full_name">>)
       ELSE WriteNext(t, "ask_family_relationship",
                      [x.context EXCEPT !.pending_family_name = x.text],
                      <<"which_relationship">>)

\* state ask_family_relationship, up to the call of findOrCreateByPhone
DispatchFamilyRelationship(t) ==
    LET idx == ParseInt(turn[t].text)
    IN IF idx = 0 \/ idx < 1 \/ idx > 7
       THEN ReplyOnly(t, <<"invalid_relationship">>)
       ELSE Goto(t, "foc_find", idx)

\* state ask_doctor; context.doctors is always present when this state is
\* reached, and the fallback query returns the same list
DispatchDoctor(t) ==
    LET x == turn[t]
        list == IF x.context.doctors = <<>> THEN fetchDoctorsSimple(ClinicOfWebhook)
                ELSE x.context.doctors
        idx == ParseInt(x.text)
    IN IF idx = 0 \/ idx < 1 \/ idx > Len(list)
       THEN ReplyOnly(t, <<"invalid_doctor">>)
       ELSE WriteNext(t, "ask_date", [x.context EXCEPT !.doctor_id = list[idx]],
                      <<"which_date">>)

\* ask_date that goes on to ask_slot with whatever list it got
DispatchDateAlwaysOffers(t) ==
    LET x == turn[t]
        date == ParseDate(x.text, now)
        ctx == [x.context EXCEPT !.selected_date = date]
    IN IF date = NULL THEN ReplyOnly(t, <<"invalid_date">>)
       ELSE WriteNext(t, "ask_slot",
                      [ctx EXCEPT !.slots = generateAvailableSlots(ctx.doctor_id, date, now, tz)],
                      <<"slots_on", "slot_list">>)

\* state ask_date, generateAvailableSlots included
DispatchDate(t) ==
    LET x == turn[t]
        date == ParseDate(x.text, now)
        ctx == [x.context EXCEPT !.selected_date = date]
    IN IF date = NULL THEN ReplyOnly(t, <<"invalid_date">>)
       ELSE IF ~DoctorInClinic(ctx.doctor_id, ClinicOfWebhook)
            THEN Throw(t, "Doctor not found in this clinic")
       ELSE LET slotsArr == generateAvailableSlots(ctx.doctor_id, date, now, tz)
            IN IF Len(slotsArr) = 0
               THEN WriteNext(t, "ask_date", ctx, <<"no_slots">>)
               ELSE WriteNext(t, "ask_slot", [ctx EXCEPT !.slots = slotsArr],
                              <<"slots_on", "slot_list">>)

\* state ask_slot, up to the call of createAppointment
DispatchSlot(t) ==
    LET idx == ParseInt(turn[t].text)
    IN IF idx = 0 \/ idx < 1 \/ idx > Len(turn[t].context.slots)
       THEN ReplyOnly(t, <<"invalid_slot">>)
       ELSE Goto(t, "book_check", idx)

\* a fallback that keeps the session as it was read
FallbackKeeps(t) == WriteNext(t, turn[t].state, turn[t].context, <<"not_understood">>)

\* default fallback: resetSession (state idle, context {}) and the re-entry prompt
Fallback(t) == WriteNext(t, "idle", EmptyContext, <<"not_understood">>)

\* processIncoming after getOrCreateSession: the branch of the state read;
\* any other state falls through to resetSession
TurnDispatch(t) ==
    /\ turn[t].pc = "dispatch"
    /\ LET state == turn[t].state
       IN CASE state = "idle" -> DispatchIdle(t)
            [] state = "ask_patient_or_other" -> DispatchPatientOrOther(t)
            [] state = "ask_existing_patient_choice" -> DispatchExistingPatientChoice(t)
            [] state = "ask_family_member_name" -> DispatchFamilyMemberName(t)
            [] state = "ask_family_relationship" -> DispatchFamilyRelationship(t)
            [] state = "ask_doctor" -> DispatchDoctor(t)
            [] state = "ask_date" -> DispatchDate(t)
            [] state = "ask_slot" -> DispatchSlot(t)
            [] OTHER -> Fallback(t)
    /\ UNCHANGED <<storeVars, appts, apiVars, gen, peopleVars, sessions, lock>>

PatientInClinic(p, c) ==
    \E i \in 1..Len(patients) : patients[i].patient_id = p /\ patients[i].clinic_id = c

\* findOrCreateByPhone, step 1: the contacts of the phone; with some found the
\* first row of an unordered result becomes the patient of the booking
TurnFindByPhone(t) ==
    /\ turn[t].pc = "foc_find"
    /\ LET x == turn[t]
           found == {k \in contacts : k.clinic_id = ClinicOfWebhook /\ k.phone = x.from}
       IN IF found = {}
          THEN Goto(t, "foc_create", x.idx)
          ELSE \E k \in found :
                  WriteNext(t, "ask_doctor",
                            [x.context EXCEPT !.patient_id = k.patient_id,
                                              !.pending_family_name = "",
                                              !.doctors = fetchDoctorsSimple(ClinicOfWebhook)],
                            <<"added_as", "doctor_list">>)
    /\ UNCHANGED <<storeVars, appts, apiVars, gen, peopleVars, sessions, lock>>

\* the catch of ask_family_relationship: updateSession to idle with context {}
CreationFailed(t, e) ==
    turn' = [turn EXCEPT ![t] = [@ EXCEPT !.pc = "write", !.wstate = "idle",
                 !.wcontext = EmptyContext, !.replies = <<"could_not_create">>,
                 !.error = e]]

\* a ROLLBACK that would leave the rows inserted so far in the table
AfterRollbackKeeps(rows, inserted) == rows \o inserted

\* ROLLBACK: the table as it was, the rows inserted in the transaction gone
AfterRollback(rows, inserted) == rows

\* findOrCreateByPhone, step 2: BEGIN; INSERT INTO patients, which no other
\* transaction sees before COMMIT; or the statement fails and the transaction
\* is rolled back
TurnCreateByPhone(t) ==
    /\ turn[t].pc = "foc_create"
    /\ \/ Goto(t, "foc_contact", turn[t].idx)
       \/ CreationFailed(t, "INSERT INTO patients")
    /\ UNCHANGED <<storeVars, appts, apiVars, gen, peopleVars, sessions, lock>>

\* findOrCreateByPhone, step 2 continued: INSERT INTO patient_contacts and
\* COMMIT, which publishes the patient and the contact together; or the
\* statement fails, ROLLBACK, and processIncoming's catch resets the session
TurnLinkContact(t) ==
    /\ turn[t].pc = "foc_contact"
    /\ LET x == turn[t]
           id == Len(patients) + 1
           name == IF x.context.pending_family_name = "" THEN "Unknown"
                   ELSE x.context.pending_family_name
           row == [patient_id |-> id, clinic_id |-> ClinicOfWebhook, full_name |-> name]
       IN \/ /\ patients' = Append(patients, row)
             /\ contacts' = contacts \cup
                    {Contact(id, x.from, RelationshipOf(x.idx), TRUE)}
             /\ WriteNext(t, "ask_doctor",
                          [x.context EXCEPT !.patient_id = id,
                                            !.pending_family_name = "",
                                            !.doctors = fetchDoctorsSimple(ClinicOfWebhook)],
                          <<"added_as", "doctor_list">>)
          \/ /\ patients' = AfterRollback(patients, <<row>>)
             /\ UNCHANGED contacts
             /\ CreationFailed(t, "INSERT INTO patient_contacts")
    /\ UNCHANGED <<storeVars, appts, apiVars, gen, sessions, lock>>

\* the createAppointment call of state ask_slot
SlotCall(t) ==
    LET x == turn[t]
        slot == x.context.slots[x.idx]
    IN CreateCall(ClinicOfWebhook, x.context.doctor_id, x.context.patient_id,
                  slot.slot_start, slot.slot_end)

\* ask_slot: createAppointment's assertions and pre-check; every exception is
\* caught by the branch
TurnBookCheck(t) ==
    /\ turn[t].pc = "book_check"
    /\ LET c == SlotCall(t)
       IN IF /\ DoctorInClinic(c.doctor_id, c.clinicId)
             /\ PatientInClinic(c.patient_id, c.clinicId)
             /\ validateSlotAvailable(appts, c.doctor_id, c.start, c.end) = "valid"
          THEN turn' = [turn EXCEPT ![t].pc = "book_insert"]
          ELSE turn' = [turn EXCEPT ![t].pc = "regen"]
    /\ UNCHANGED <<storeVars, appts, apiVars, gen, peopleVars, sessions, lock>>

\* ask_slot: createAppointment's INSERT; on success the session goes to done
\* with the context as it was read
TurnBookInsert(t) ==
    /\ turn[t].pc = "book_insert"
    /\ LET rows == Append(appts, InsertedRow(appts, SlotCall(t)))
       IN IF no_overlap_per_doctor(rows)
          THEN /\ appts' = rows
               /\ turn' = [turn EXCEPT ![t] = [@ EXCEPT !.pc = "write",
                               !.wstate = "done", !.wcontext = turn[t].context,
                               !.created = Len(rows), !.replies = <<"confirmed">>]]
          ELSE /\ turn' = [turn EXCEPT ![t].pc = "regen"]
               /\ UNCHANGED appts
    /\ UNCHANGED <<storeVars, apiVars, gen, peopleVars, sessions, lock>>

\* ask_slot, catch: the context keeps old slots instead of the fresh list
FreshContextStale(ctx, fresh) == ctx

\* ask_slot, catch: context.slots = fresh
FreshContext(ctx, fresh) == [ctx EXCEPT !.slots = fresh]

\* ask_slot, catch: generateAvailableSlots again, the fresh list into the context
TurnRegen(t) ==
    /\ turn[t].pc = "regen"
    /\ LET x == turn[t]
       IN IF ~DoctorInClinic(x.context.doctor_id, ClinicOfWebhook)
          THEN Throw(t, "Doctor not found in this clinic")
          ELSE LET fresh == generateAvailableSlots(x.context.doctor_id,
                                                   x.context.selected_date, now, tz)
               IN WriteNext(t, "ask_slot", FreshContext(x.context, fresh),
                            IF Len(fresh) = 0 THEN <<"taken_none_left">>
                            ELSE <<"taken", "slot_list">>)
    /\ UNCHANGED <<storeVars, appts, apiVars, gen, peopleVars, sessions, lock>>

----------------------------------------------------------------------------
(* The conversation under concurrent webhook deliveries *)

\* doctor 1 works Monday 09:00-10:00 UTC in 30-minute slots; doctor 2 has no
\* working hours
ConvWh == {[doctor_id |-> 1, day_of_week |-> 1, start_time |-> 9 * 60, end_time |-> 10 * 60]}

ConvSettings ==
    [d \in Doctors |->
        IF d = 1 THEN [slot_minutes |-> 30, lead_time_min |-> 60, buffer_min |-> 0]
        ELSE NoSettings]

SlotRow(lo, hi, m) == [slot_start |-> lo, slot_end |-> hi, slot_minutes |-> m]

\* the two slots of doctor 1 on the first Monday, as generated into a context
OfferedSlots == <<SlotRow(RA.lo, RA.hi, 30), SlotRow(RC.lo, RC.hi, 30)>>

WithPatient == [EmptyContext EXCEPT !.patient_id = 1]
WithDoctors == [WithPatient EXCEPT !.doctors = fetchDoctorsSimple(ClinicOfWebhook)]
WithDoctor == [WithDoctors EXCEPT !.doctor_id = 1]
WithSlots == [WithDoctor EXCEPT !.selected_date = Monday, !.slots = OfferedSlots]

\* where earlier turns of phone p1 have left the conversation: its contacts
\* and its session row
ConvSeeds ==
    LET self == Contact(1, "p1", "self", TRUE)
        kin == Contact(3, "p1", "son", FALSE)
        S(st, ctx) == <<SessionRow(ClinicOfWebhook, "p1", st, ctx)>>
    IN {[contacts |-> {}, sessions |-> <<>>],
        [contacts |-> {self}, sessions |-> <<>>],
        [contacts |-> {self, kin}, sessions |-> S("idle", EmptyContext)],
        [contacts |-> {}, sessions |-> S("ask_patient_or_other", EmptyContext)],
        [contacts |-> {self}, sessions |-> S("ask_patient_or_other", WithPatient)],
        [contacts |-> {self, kin}, sessions |->
            S("ask_existing_patient_choice",
              [EmptyContext EXCEPT !.patient_candidates = <<1, 3>>])],
        [contacts |-> {}, sessions |-> S("ask_family_member_name", EmptyContext)],
        [contacts |-> {}, sessions |->
            S("ask_family_relationship",
              [EmptyContext EXCEPT !.pending_family_name = "Sara Khan"])],
        [contacts |-> {self}, sessions |->
            S("ask_family_relationship",
              [EmptyContext EXCEPT !.pending_family_name = "Sara Khan"])],
        [contacts |-> {self}, sessions |-> S("ask_doctor", WithDoctors)],
        [contacts |-> {self}, sessions |-> S("ask_date", WithDoctor)],
        [contacts |-> {self}, sessions |-> S("ask_slot", WithSlots)]}

\* the same two slots offered by a clinic at UTC+05:30, and the conversation
\* of p1 that was offered them
ZonedOffer ==
    LET z == CHOOSE x \in Zones : x # 0
    IN <<SlotRow(LocalToInstant(Monday, 9 * 60, z), LocalToInstant(Monday, 9 * 60 + 30, z), 30),
         SlotRow(LocalToInstant(Monday, 9 * 60 + 30, z), LocalToInstant(Monday, 10 * 60, z), 30)>>

ZonedSeed ==
    [contacts |-> {Contact(1, "p1", "self", TRUE)},
     sessions |-> <<SessionRow(ClinicOfWebhook, "p1", "ask_slot",
                       [WithDoctor EXCEPT !.selected_date = Monday, !.slots = ZonedOffer])>>]

\* p1 has booked the 09:00 slot in an earlier turn: the appointment, and the
\* session in done with the context of that turn
DoneAppts == <<Row(1, 1, 1, 1, RA.lo, RA.hi, "scheduled")>>

DoneSeed ==
    [contacts |-> {Contact(1, "p1", "self", TRUE)},
     sessions |-> <<SessionRow(ClinicOfWebhook, "p1", "done", WithSlots)>>]

\* phone p1 also talks to the other clinic, which asked it for a name
OtherClinicRow ==
    SessionRow(CHOOSE c \in Clinics : c # ClinicOfWebhook, "p1",
               "ask_family_member_name", EmptyContext)

\* the appointments of doctor 1: none, or the 09:00 slot taken by someone else
ConvAppts == {<<>>, <<Row(1, 1, 1, 3, RA.lo, RA.hi, "scheduled")>>}

InitConv ==
    /\ tz \in Zones
    /\ now = LocalToInstant(Monday, 6 * 60, tz)
    /\ wh = ConvWh
    /\ settings = ConvSettings
    /\ blocked = {}
    /\ pc = [p \in Procs |-> "idle"]
    /\ call = [p \in Procs |-> NoCall]
    /\ gen = NoGen
    /\ patients = SeedPatients
    /\ inbox = Inbound
    /\ \E seed \in IF tz = 0 THEN ConvSeeds ELSE {ZonedSeed} :
        /\ appts \in IF tz = 0 THEN ConvAppts ELSE {<<>>}
        /\ contacts = seed.contacts
        /\ sessions = seed.sessions \o <<OtherClinicRow>>
        /\ lock = [i \in DOMAIN sessions |-> 0]
    /\ turn = [t \in Turns |-> NoTurn]

NextConv ==
    \E t \in Turns :
        \/ TurnBegin(t)
        \/ TurnCommit(t)
        \/ TurnCreate(t)
        \/ TurnDispatch(t)
        \/ TurnFindByPhone(t)
        \/ TurnCreateByPhone(t)
        \/ TurnLinkContact(t)
        \/ TurnBookCheck(t)
        \/ TurnBookInsert(t)
        \/ TurnRegen(t)
        \/ TurnWrite(t)

SpecConv == InitConv /\ [][NextConv]_vars

----------------------------------------------------------------------------
(* Properties of the conversation *)

\* the turn has read the session and computed the state it is about to write
\* with updateSession or resetSession
WritePending(t) == turn[t].pc = "write"

\* C3: turns of one (clinic, phone) are mutually exclusive: no turn reads the
\* session between another turn's read and that turn's write, so two turns of
\* the same phone never both hold a state computed from their reads and not
\* yet written.
C3_TurnsExclusive ==
    \A t1, t2 \in Turns :
        (/\ t1 # t2
         /\ turn[t1].from = turn[t2].from
         /\ WritePending(t1)
         /\ WritePending(t2)) => FALSE

Ended(t) == turn[t].pc \in {"done", "failed"}

\* the turn read a session in ask_slot and its text is a valid slot number of
\* the list it read
ChoseSlot(t) ==
    /\ turn[t].state = "ask_slot"
    /\ ParseInt(turn[t].text) \in 1..Len(turn[t].context.slots)

\* C4: the same valid slot number delivered twice to a session in ask_slot,
\* both deliveries read before the session advanced: once both turns have
\* ended and no other message of the phone was processed, at most one of them
\* committed an appointment, and if one did the session is in done.
C4_ReplayIdempotent ==
    \A t1, t2 \in Turns :
        (/\ t1 # t2
         /\ Ended(t1) /\ Ended(t2)
         /\ turn[t1].from = turn[t2].from
         /\ turn[t1].text = turn[t2].text
         /\ ChoseSlot(t1) /\ ChoseSlot(t2)
         /\ \A t3 \in Turns \ {t1, t2} : turn[t3].from # turn[t1].from)
        => /\ ~(turn[t1].created > 0 /\ turn[t2].created > 0)
           /\ (turn[t1].created > 0 \/ turn[t2].created > 0)
                => \A i \in SessionIds(ClinicOfWebhook, turn[t1].from) :
                       sessions[i].state = "done"

\* no other message of the phone of turn t has been taken up
OnlyTurnOf(t) == \A u \in Turns \ {t} : turn[u].from # turn[t].from

\* the active appointments of the doctor, patient and slot chosen in turn t
BookedFor(t) ==
    LET c == SlotCall(t)
    IN {i \in 1..Len(appts) :
           /\ IsActive(appts[i])
           /\ appts[i].doctor_id = c.doctor_id
           /\ appts[i].patient_id = c.patient_id
           /\ appts[i].start = c.start
           /\ appts[i].end = c.end}

\* C11: after the only turn of a phone chose a valid slot in ask_slot and
\* createAppointment succeeded, the persisted session is in done with an empty
\* context and exactly one appointment for the doctor, patient and slot exists.
C11_DoneClearsContext ==
    \A t \in Turns :
        (/\ turn[t].pc = "done"
         /\ ChoseSlot(t)
         /\ turn[t].created > 0
         /\ OnlyTurnOf(t))
        => /\ Cardinality(BookedFor(t)) = 1
           /\ \A i \in SessionIds(ClinicOfWebhook, turn[t].from) :
                  /\ sessions[i].state = "done"
                  /\ sessions[i].context = EmptyContext

\* turn t takes a step
Moves(t) == turn'[t] # turn[t]

\* C12: a turn that chose a valid slot in ask_slot and whose createAppointment
\* failed commits no appointment, goes on to write state ask_slot with the
\* context it read in which the slot list is replaced by what
\* generateAvailableSlots returns for the same doctor and selected date, and
\* that is what its updateSession persists; no step of it depends on how many
\* attempts failed before.
C12_FailureRegenerates ==
    [][\A t \in Turns :
          /\ (Moves(t) /\ turn'[t].pc = "regen") => appts' = appts
          /\ (Moves(t) /\ turn[t].pc = "regen") =>
                /\ appts' = appts
                /\ turn'[t].pc = "write"
                /\ turn'[t].wstate = "ask_slot"
                /\ turn'[t].wcontext =
                       [turn[t].context EXCEPT !.slots =
                           generateAvailableSlots(turn[t].context.doctor_id,
                                                  turn[t].context.selected_date, now, tz)]
          /\ (Moves(t) /\ turn[t].pc = "write" /\ ChoseSlot(t) /\ turn[t].created = 0) =>
                /\ appts' = appts
                /\ \A i \in SessionIds(ClinicOfWebhook, turn[t].from) :
                       /\ sessions'[i].state = "ask_slot"
                       /\ sessions'[i].context = turn[t].wcontext]_vars

\* the slot was refused twice in a row: the second turn read what the first
\* wrote, failed again, and the session is in ask_slot with its fresh list
C12_Witness ==
    \E t1, t2 \in Turns :
        /\ t1 # t2
        /\ Ended(t1) /\ Ended(t2)
        /\ turn[t1].from = turn[t2].from
        /\ ChoseSlot(t1) /\ ChoseSlot(t2)
        /\ turn[t1].created = 0 /\ turn[t2].created = 0
        /\ turn[t1].wstate = "ask_slot" /\ turn[t2].wstate = "ask_slot"
        /\ turn[t1].replies = <<"taken", "slot_list">>
        /\ turn[t2].context = turn[t1].wcontext
        /\ \A i \in SessionIds(ClinicOfWebhook, turn[t2].from) :
               sessions[i].state = "ask_slot" /\ sessions[i].context = turn[t2].wcontext

\* the texts that are a number: digits only
IsNumber(text) == text \in {"1", "2", "9"}

\* the choices the state read by turn t offers
OfferedRange(t) ==
    LET x == turn[t]
    IN CASE x.state = "ask_patient_or_other" -> 1..2
         [] x.state = "ask_existing_patient_choice" -> 1..(Len(x.context.patient_candidates) + 1)
         [] x.state = "ask_family_relationship" -> 1..7
         [] x.state = "ask_doctor" -> 1..Len(x.context.doctors)
         [] x.state = "ask_slot" -> 1..Len(x.context.slots)
         [] OTHER -> {}

NumberedChoiceStates ==
    {"ask_patient_or_other", "ask_existing_patient_choice", "ask_family_relationship",
     "ask_doctor", "ask_slot"}

RePrompts ==
    {<<"reply_1_or_2">>, <<"invalid_option">>, <<"invalid_relationship">>,
     <<"invalid_doctor">>, <<"invalid_slot">>}

\* turn t read a numbered-choice state and its reply is not a number or is a
\* number outside the offered range
InvalidChoice(t) ==
    /\ turn[t].pc \notin {"idle", "locked", "create"}
    /\ turn[t].state \in NumberedChoiceStates
    /\ ~IsNumber(turn[t].text) \/ ParseInt(turn[t].text) \notin OfferedRange(t)

\* C13: in a numbered-choice state a reply that is not a number or is outside
\* the offered range changes neither the persisted sessions nor the patients,
\* contacts and appointments, and the turn ends with a re-prompt.
C13_InvalidChoiceReprompts ==
    [][\A t \in Turns :
          (InvalidChoice(t) /\ Moves(t)) =>
              /\ UNCHANGED <<sessions, patients, contacts, appts>>
              /\ turn'[t].pc = "done"
              /\ turn'[t].replies \in RePrompts]_vars

\* the same for the replies parseInt takes for no number or for a number
\* outside the offered range
C13_UnparsedChoiceReprompts ==
    [][\A t \in Turns :
          (/\ turn[t].pc \notin {"idle", "locked", "create"}
           /\ turn[t].state \in NumberedChoiceStates
           /\ ParseInt(turn[t].text) \notin OfferedRange(t)
           /\ Moves(t)) =>
              /\ UNCHANGED <<sessions, patients, contacts, appts>>
              /\ turn'[t].pc = "done"
              /\ turn'[t].replies \in RePrompts]_vars

\* C14: a step of a turn of one (clinic, phone) leaves the session row of
\* every other (clinic, phone) as it was, state and context, and removes none.
C14_OtherSessionsUntouched ==
    [][\A t \in Turns :
          Moves(t) =>
              \A i \in DOMAIN sessions :
                  (sessions[i].clinic_id # ClinicOfWebhook \/ sessions[i].phone # turn'[t].from)
                  => /\ i \in DOMAIN sessions'
                     /\ sessions'[i] = sessions[i]]_vars

\* both phones have written their sessions in the clinic, each its own, and
\* the row p1 has in the other clinic is as it was
C14_Witness ==
    \E t1, t2 \in Turns, i, j, k \in DOMAIN sessions :
        /\ turn[t1].from = "p1" /\ turn[t1].pc = "done" /\ turn[t1].wstate # ""
        /\ turn[t2].from = "p2" /\ turn[t2].pc = "done" /\ turn[t2].wstate # ""
        /\ sessions[i] = SessionRow(ClinicOfWebhook, "p1", turn[t1].wstate, turn[t1].wcontext)
        /\ sessions[j] = SessionRow(ClinicOfWebhook, "p2", turn[t2].wstate, turn[t2].wcontext)
        /\ sessions[i].state # sessions[j].state
        /\ sessions[k] = OtherClinicRow

\* C15: in every reachable state no two session rows have the same clinic and
\* phone, also when two first messages of a new phone both found no row.
C15_OneSessionPerPhone ==
    \A i, j \in DOMAIN sessions :
        (i # j /\ sessions[i].clinic_id = sessions[j].clinic_id)
        => sessions[i].phone # sessions[j].phone

\* two first messages of a new phone both found no row; one inserted the row,
\* the insert of the other was refused
C15_Witness ==
    \E t1, t2 \in Turns :
        /\ t1 # t2
        /\ turn[t1].from = turn[t2].from
        /\ turn[t1].pc = "failed" /\ turn[t1].error = "unique_violation"
        /\ turn[t2].pc \notin {"idle", "create", "failed"}
        /\ Cardinality(SessionIds(ClinicOfWebhook, turn[t1].from)) = 1

----------------------------------------------------------------------------
(* handleWebhook: the reply is sent after processIncoming has returned *)

\* a failed delivery that would take the turn back: the session reset
DeliveryUndoesTurn(t) ==
    /\ sessions' = [i \in DOMAIN sessions |->
           IF i \in SessionIds(ClinicOfWebhook, turn[t].from)
           THEN [sessions[i] EXCEPT !.state = "idle", !.context = EmptyContext]
           ELSE sessions[i]]
    /\ UNCHANGED <<appts, peopleVars>>

\* what handleWebhook does to the stores when sendMessage throws: the error
\* goes to next(err), nothing is written
DeliveryFailed(t) == UNCHANGED <<sessions, appts, peopleVars>>

\* handleWebhook, step 4: sendMessage posts the reply and returns, or throws
TurnSend(t) ==
    /\ turn[t].pc = "done"
    /\ \/ /\ turn' = [turn EXCEPT ![t].pc = "sent"]
          /\ UNCHANGED <<sessions, appts, peopleVars>>
       \/ /\ turn' = [turn EXCEPT ![t] = [@ EXCEPT !.pc = "send_failed",
                                                   !.error = "sendMessage"]]
          /\ DeliveryFailed(t)
    /\ UNCHANGED <<storeVars, apiVars, gen, lock>>

\* the conversations the webhook is watched on: p1 about to choose a slot, or
\* about to name a relationship with no contact yet
HookSeeds ==
    {seed \in ConvSeeds :
        /\ seed.sessions # <<>>
        /\ \/ seed.sessions[1].state = "ask_slot"
           \/ seed.sessions[1].state = "ask_family_relationship" /\ seed.contacts = {}}

InitHook ==
    /\ tz = 0
    /\ now = LocalToInstant(Monday, 6 * 60, tz)
    /\ wh = ConvWh
    /\ settings = ConvSettings
    /\ blocked = {}
    /\ appts = <<>>
    /\ pc = [p \in Procs |-> "idle"]
    /\ call = [p \in Procs |-> NoCall]
    /\ gen = NoGen
    /\ patients = SeedPatients
    /\ inbox = Inbound
    /\ \E seed \in HookSeeds :
        /\ contacts = seed.contacts
        /\ sessions = seed.sessions \o <<OtherClinicRow>>
        /\ lock = [i \in DOMAIN sessions |-> 0]
    /\ turn = [t \in Turns |-> NoTurn]

NextHook ==
    \/ NextConv
    \/ \E t \in Turns : TurnSend(t)

SpecHook == InitHook /\ [][NextHook]_vars

\* C16: once the reply of a turn was sent or its delivery failed, and no other
\* message of the phone was taken up, the session holds the state and context
\* the turn wrote and the appointment the turn committed is there, active, for
\* the slot chosen.
C16_DeliveryKeepsTurn ==
    \A t \in Turns :
        (turn[t].pc \in {"sent", "send_failed"} /\ OnlyTurnOf(t))
        => /\ turn[t].wstate # "" =>
                \A i \in SessionIds(ClinicOfWebhook, turn[t].from) :
                    /\ sessions[i].state = turn[t].wstate
                    /\ sessions[i].context = turn[t].wcontext
           /\ turn[t].created > 0 =>
                /\ turn[t].created \in DOMAIN appts
                /\ turn[t].created \in BookedFor(t)

\* a delivery failed after the turn had booked a slot and written done
C16_Witness ==
    \E t \in Turns :
        /\ turn[t].pc = "send_failed"
        /\ OnlyTurnOf(t)
        /\ turn[t].created > 0
        /\ turn[t].wstate = "done"

----------------------------------------------------------------------------
(* The pre-check and the exclusion constraint *)

\* the active appointments of the doctor of call c whose range intersects the
\* range c asks for
ConflictsWith(rows, c) ==
    {i \in 1..Len(rows) :
        /\ IsActive(rows[i])
        /\ rows[i].doctor_id = c.doctor_id
        /\ Intersect(rows[i].start, rows[i].end, c.start, c.end)}

SlotReasons ==
    {"Not in working hours", "Doctor is unavailable", "Slot overlaps with existing appointment"}

\* C17: createAppointment (doctor and patient in the clinic, start before end)
\* passes its pre-check only when no active appointment of the doctor
\* intersects the range, and fails with StructuralConflict only when one does
\* at the insert, so one that was committed in between; a call that fails
\* leaves the appointments unchanged and SlotUnavailable carries one of the
\* three reasons; a call that ran with no other call running ends in
\* SlotUnavailable or with its appointment inserted.
C17_ConflictOnlyWhenRaced ==
    [][\A p \in Procs :
          LET c == call[p]
              d == call'[p]
          IN /\ (c.kind = "create" /\ pc[p] = "check" /\ pc'[p] = "insert")
                    => ConflictsWith(appts, c) = {}
             /\ (c.kind = "create" /\ pc[p] = "insert" /\ d.result = "StructuralConflict")
                    => ConflictsWith(appts, c) # {} /\ appts' = appts
             /\ (c.kind = "create" /\ pc[p] = "check" /\ d.result = "SlotUnavailable")
                    => d.reason \in SlotReasons /\ appts' = appts
             /\ (d.kind = "create" /\ pc'[p] = "done" /\ d.result # "Error"
                     /\ \A q \in Procs \ {p} : pc'[q] = "idle")
                    => \/ d.result = "SlotUnavailable"
                       \/ /\ d.result = "ok"
                          /\ d.appointmentId \in DOMAIN appts'
                          /\ appts'[d.appointmentId].start = d.start
                          /\ appts'[d.appointmentId].end = d.end]_vars

\* a create passed its pre-check, a reschedule then moved an appointment onto
\* its range, and the insert was refused
C17_Witness ==
    \E p, q \in Procs :
        /\ call[p].kind = "create" /\ call[p].result = "StructuralConflict"
        /\ call[q].kind = "update" /\ call[q].result = "ok"
        /\ call[q].appointmentId \in ConflictsWith(appts, call[p])
        /\ call[q].start # NULL

----------------------------------------------------------------------------
(* Family members *)

\* turn t read ask_family_relationship, its reply parsed to a choice of 1..7,
\* and it went on to doctor selection
ChoseRelationship(t) ==
    /\ turn[t].state = "ask_family_relationship"
    /\ ParseInt(turn[t].text) \in 1..7
    /\ turn[t].wstate = "ask_doctor"

\* C18: after a valid relationship choice the patient put into the session
\* context bears the name collected in ask_family_member_name and is linked
\* to the phone by a contact with the relationship chosen, whether or not the
\* phone had linked patients before.
C18_FamilyMemberIsBooked ==
    \A t \in Turns :
        ChoseRelationship(t) =>
            LET id == turn[t].wcontext.patient_id
            IN /\ \E i \in DOMAIN patients :
                      /\ patients[i].patient_id = id
                      /\ patients[i].full_name = turn[t].context.pending_family_name
               /\ \E k \in contacts :
                      /\ k.clinic_id = ClinicOfWebhook
                      /\ k.phone = turn[t].from
                      /\ k.patient_id = id
                      /\ k.relationship = RelationshipOf(ParseInt(turn[t].text))

\* the patients findOrCreateByPhone has created
CreatedPatients == {i \in DOMAIN patients : i > Len(SeedPatients)}

\* C19: a patient created by findOrCreateByPhone exists exactly when the
\* contact linking it to a phone exists, in every reachable state, also after
\* a creation failed part-way; a turn whose creation failed writes idle with
\* an empty context, and that is where the session is after it.
C19_CreationAllOrNothing ==
    /\ \A i \in CreatedPatients : \E k \in contacts : k.patient_id = patients[i].patient_id
    /\ \A k \in contacts :
           k.patient_id > Len(SeedPatients) =>
               \E i \in CreatedPatients : patients[i].patient_id = k.patient_id
    /\ \A t \in Turns :
           turn[t].replies = <<"could_not_create">> =>
               /\ turn[t].wstate = "idle"
               /\ turn[t].wcontext = EmptyContext
               /\ (turn[t].pc = "done" /\ OnlyTurnOf(t)) =>
                      \A i \in SessionIds(ClinicOfWebhook, turn[t].from) :
                          sessions[i].state = "idle" /\ sessions[i].context = EmptyContext

\* the insert of the contact failed after the patient had been inserted; the
\* turn has reset the session and no patient was left behind
C19_Witness ==
    \E t \in Turns :
        /\ turn[t].pc = "done"
        /\ turn[t].error = "INSERT INTO patient_contacts"
        /\ OnlyTurnOf(t)
        /\ CreatedPatients = {}
        /\ \A i \in SessionIds(ClinicOfWebhook, turn[t].from) : sessions[i].state = "idle"

----------------------------------------------------------------------------
(* The slots of one shift *)

\* the doctor of the last generateAvailableSlots call has one working-hours
\* rule on the target weekday, no blocked interval and no appointment, and
\* the lead time has elapsed before the shift starts
PlainShift(w) ==
    /\ Generated
    /\ RulesOn(gen.doctor_id, GenDay) = {w}
    /\ ~\E b \in blocked : b.doctor_id = gen.doctor_id
    /\ ~\E i \in 1..Len(appts) : appts[i].doctor_id = gen.doctor_id
    /\ gen.at + LeadTimeMin(gen.doctor_id) <= WindowStart(w)

\* C20: for a plain shift [s, e) and slot length L the result is exactly the
\* floor((e - s) / L) slots [s + k * L, s + (k + 1) * L), k = 0, 1, ..., in
\* that order, and nothing else; a target date with no rule on its weekday
\* gives the empty list and no error.
C20_ShiftIsCutIntoSlots ==
    /\ \A w \in wh :
           PlainShift(w) =>
               LET L == SlotMinutes(gen.doctor_id)
                   s == WindowStart(w)
                   n == (WindowEnd(w) - s) \div L
               IN /\ gen.rows = [k \in 1..n |-> SlotRow(s + (k - 1) * L, s + k * L, L)]
                  /\ \A k \in 1..Len(gen.rows) : gen.rows[k].slot_end <= WindowEnd(w)
    /\ (DoctorInClinic(gen.doctor_id, gen.clinicId)
            /\ RulesOn(gen.doctor_id, GenDay) = {})
           => gen.rows = <<>> /\ gen.error = ""

\* a shift the slot length does not divide: the slots that fit were returned
\* and the partial one at the end was not
C20_Witness ==
    \E w \in wh :
        /\ PlainShift(w)
        /\ (WindowEnd(w) - WindowStart(w)) % SlotMinutes(gen.doctor_id) # 0
        /\ Len(gen.rows) >= 2
        /\ gen.rows[Len(gen.rows)].slot_end < WindowEnd(w)

----------------------------------------------------------------------------
(* What the generator leaves out *)

\* the slot starts of the grids of the rules of the target weekday
GridStarts ==
    UNION {{t \in WindowStart(w)..(WindowEnd(w) - SlotMinutes(gen.doctor_id)) : OnGrid(w, t)} :
           w \in RulesOn(gen.doctor_id, GenDay)}

LeadTimePassed(t) == t >= gen.at + LeadTimeMin(gen.doctor_id)

MeetsBlocked(t) ==
    \E b \in blocked :
        /\ b.doctor_id = gen.doctor_id
        /\ Intersect(b.start, b.end, t, t + SlotMinutes(gen.doctor_id))

\* the appointments of the doctor that meet the slot at t widened by the
\* buffer on both sides
MeetsBuffered(t) ==
    {i \in 1..Len(appts) :
        /\ appts[i].doctor_id = gen.doctor_id
        /\ Intersect(appts[i].start, appts[i].end,
                     t - BufferMin(gen.doctor_id),
                     t + SlotMinutes(gen.doctor_id) + BufferMin(gen.doctor_id))}

\* C21: a candidate slot (on a rule's grid, past the lead time, clear of
\* blocked intervals) is missing from the result exactly when its range
\* widened by the buffer on both sides meets a scheduled or confirmed
\* appointment of the doctor; completed, cancelled and no_show appointments
\* remove nothing.
C21_BufferedAppointmentsExclude ==
    Generated =>
        \A t \in GridStarts :
            (LeadTimePassed(t) /\ ~MeetsBlocked(t)) =>
                (Occurrences(t) = 0
                    <=> \E i \in MeetsBuffered(t) : appts[i].status \in {"scheduled", "confirmed"})

\* a confirmed appointment at 10:00-10:30 with buffer 15: the slots at 09:30,
\* 10:00 and 10:30 are out and the slot at 09:00 is in
C21_Witness ==
    /\ Generated
    /\ BufferMin(gen.doctor_id) = 15 /\ SlotMinutes(gen.doctor_id) = 30
    /\ \E i \in 1..Len(appts) :
           /\ appts[i].status = "confirmed"
           /\ appts[i].start = LocalToInstant(GenDay, 10 * 60, tz)
           /\ appts[i].end = appts[i].start + 30
           /\ {appts[i].start - 30, appts[i].start, appts[i].start + 30} \subseteq GridStarts
           /\ \A t \in {appts[i].start - 30, appts[i].start, appts[i].start + 30} :
                  Occurrences(t) = 0
           /\ Occurrences(appts[i].start - 60) > 0

\* an appointment that is over or off meets a slot, which is returned
C21_InactiveWitness ==
    /\ Generated
    /\ \E t \in GridStarts :
           /\ Occurrences(t) > 0
           /\ \E i \in MeetsBuffered(t) : appts[i].status \in {"completed", "cancelled", "no_show"}

\* the settings the statement works with: the doctor's record, or 15, 60 and 0
HasSettings(d) == settings[d] # NoSettings

ExpectedSlotMinutes(d) == IF HasSettings(d) THEN settings[d].slot_minutes ELSE 15

ExpectedLeadTime(d) == IF HasSettings(d) THEN settings[d].lead_time_min ELSE 60

ExpectedBuffer(d) == IF HasSettings(d) THEN settings[d].buffer_min ELSE 0

\* C22: no returned slot starts earlier than now + lead time, where lead time,
\* slot length and buffer are the doctor's settings, or 60, 15 and 0 minutes
\* for a doctor without a settings record: every returned slot has the slot
\* length, and a slot past the lead time and clear of blocked intervals whose
\* range widened by the buffer meets no active appointment is returned.
C22_LeadTimeAndDefaults ==
    Generated =>
        LET d == gen.doctor_id
        IN /\ \A i \in 1..Len(gen.rows) :
                /\ gen.rows[i].slot_start >= gen.at + ExpectedLeadTime(d)
                /\ gen.rows[i].slot_end = gen.rows[i].slot_start + ExpectedSlotMinutes(d)
                /\ gen.rows[i].slot_minutes = ExpectedSlotMinutes(d)
           /\ \A w \in RulesOn(d, GenDay) :
                \A t \in WindowStart(w)..(WindowEnd(w) - ExpectedSlotMinutes(d)) :
                    ( /\ (t - WindowStart(w)) % ExpectedSlotMinutes(d) = 0
                      /\ t >= gen.at + ExpectedLeadTime(d)
                      /\ ~MeetsBlocked(t)
                      /\ \A j \in 1..Len(appts) :
                            (appts[j].doctor_id = d /\ IsActive(appts[j])) =>
                                ~Intersect(appts[j].start, appts[j].end,
                                           t - ExpectedBuffer(d),
                                           t + ExpectedSlotMinutes(d) + ExpectedBuffer(d)) )
                    => \E i \in 1..Len(gen.rows) : gen.rows[i].slot_start = t

\* a doctor without settings, half an hour before the shift: the quarter-hour
\* slots before now + 60 are out, the one starting at now + 60 is in, and so
\* is a slot that ends where an active appointment begins
C22_Witness ==
    /\ Generated
    /\ ~HasSettings(gen.doctor_id)
    /\ \E w \in RulesOn(gen.doctor_id, GenDay) :
           /\ WindowStart(w) < gen.at + 60
           /\ \E i \in 1..Len(gen.rows) :
                  /\ gen.rows[i].slot_start = gen.at + 60
                  /\ gen.rows[i].slot_end = gen.at + 75
    /\ \E i \in 1..Len(gen.rows), j \in 1..Len(appts) :
           /\ IsActive(appts[j]) /\ appts[j].doctor_id = gen.doctor_id
           /\ gen.rows[i].slot_end = appts[j].start

\* C23: no returned slot shares an instant with a blocked interval of the
\* doctor, both taken half-open; a slot that ends where a blocked interval
\* begins, or begins where one ends, is not removed by it (it is returned when
\* nothing else removes it).
C23_BlockedHalfOpen ==
    Generated =>
        /\ \A i \in 1..Len(gen.rows) :
               \A b \in blocked :
                   b.doctor_id = gen.doctor_id =>
                       \A x \in gen.rows[i].slot_start..(gen.rows[i].slot_end - 1) :
                           ~(b.start <= x /\ x < b.end)
        /\ \A t \in GridStarts :
               ( /\ LeadTimePassed(t)
                 /\ ~\E i \in MeetsBuffered(t) : IsActive(appts[i])
                 /\ \A b \in blocked :
                        b.doctor_id = gen.doctor_id =>
                            (t + SlotMinutes(gen.doctor_id) <= b.start \/ b.end <= t) )
               => Occurrences(t) > 0

\* a blocked interval from 09:30 to 10:00 local: the slot ending at 09:30 and
\* the slot starting at 10:00 are returned, the slot starting at 09:30 is not
C23_Witness ==
    /\ Generated
    /\ \E b \in blocked :
           /\ b.doctor_id = gen.doctor_id
           /\ Occurrences(b.start - SlotMinutes(gen.doctor_id)) > 0
           /\ Occurrences(b.end) > 0
           /\ b.start \in GridStarts
           /\ LeadTimePassed(b.start)
           /\ Occurrences(b.start) = 0

----------------------------------------------------------------------------
(* One phone talking to the bot, one message at a time *)

\* what p1 may say
Said == {<<"p1", x>> : x \in Texts \cup {"cancel", "hi", "1970-01-05"}}

\* both offered slots of doctor 1 were booked at the front desk
BothTaken ==
    <<Row(1, 1, 1, 3, RA.lo, RA.hi, "scheduled"), Row(2, 1, 1, 3, RC.lo, RC.hi, "confirmed")>>

\* the sender waits for the reply before writing again
TurnBeginAlone(t) ==
    /\ \A u \in Turns : turn[u].pc \in {"idle", "done", "failed"}
    /\ TurnBegin(t)

InitTalk ==
    /\ tz = 0
    /\ now = LocalToInstant(Monday, 6 * 60, tz)
    /\ wh = ConvWh
    /\ settings = ConvSettings
    /\ blocked = {}
    /\ pc = [p \in Procs |-> "idle"]
    /\ call = [p \in Procs |-> NoCall]
    /\ gen = NoGen
    /\ patients = SeedPatients
    /\ inbox = Said
    /\ \E seed \in ConvSeeds \cup {DoneSeed} :
        /\ appts \in IF seed = DoneSeed THEN {DoneAppts} ELSE ConvAppts \cup {BothTaken}
        /\ contacts = seed.contacts
        /\ sessions = seed.sessions \o <<OtherClinicRow>>
        /\ lock = [i \in DOMAIN sessions |-> 0]
    /\ turn = [t \in Turns |-> NoTurn]

NextTalk ==
    \E t \in Turns :
        \/ TurnBeginAlone(t)
        \/ TurnCommit(t)
        \/ TurnCreate(t)
        \/ TurnDispatch(t)
        \/ TurnFindByPhone(t)
        \/ TurnCreateByPhone(t)
        \/ TurnLinkContact(t)
        \/ TurnBookCheck(t)
        \/ TurnBookInsert(t)
        \/ TurnRegen(t)
        \/ TurnWrite(t)

SpecTalk == InitTalk /\ [][NextTalk]_vars

----------------------------------------------------------------------------
(* The state labels of a session *)

Labels ==
    {"idle", "ask_patient_or_other", "ask_existing_patient_choice",
     "ask_family_member_name", "ask_family_relationship", "ask_doctor",
     "ask_date", "ask_slot", "done"}

Edges ==
    {<<"idle", "ask_patient_or_other">>, <<"idle", "ask_family_member_name">>,
     <<"idle", "ask_existing_patient_choice">>,
     <<"ask_patient_or_other", "ask_family_member_name">>,
     <<"ask_patient_or_other", "ask_doctor">>,
     <<"ask_existing_patient_choice", "ask_family_member_name">>,
     <<"ask_existing_patient_choice", "ask_doctor">>,
     <<"ask_family_member_name", "ask_family_relationship">>,
     <<"ask_family_relationship", "ask_doctor">>,
     <<"ask_family_relationship", "idle">>,
     <<"ask_doctor", "ask_date">>,
     <<"ask_date", "ask_slot">>,
     <<"ask_slot", "done">>,
     <<"done", "idle">>}

\* C24: every change of the state label of a session row follows one of the
\* edges of the conversation, the label is always one of the nine states, and
\* a row gets the label done only from ask_slot, by a turn that committed an
\* appointment.
C24_LabelFollowsEdges ==
    [][\A i \in DOMAIN sessions :
          /\ sessions'[i].state \in Labels
          /\ sessions'[i].state # sessions[i].state =>
                /\ <<sessions[i].state, sessions'[i].state>> \in Edges
                /\ sessions'[i].state = "done" =>
                      \E t \in Turns : turn[t].pc = "write" /\ turn'[t].pc = "done"
                                       /\ turn[t].created # 0]_vars

\* what a turn does to the label it read: every write of a turn is along an
\* edge or keeps the label, and done is written only after an INSERT
C24_TurnFollowsEdges ==
    \A t \in Turns :
        turn[t].pc = "write" =>
            /\ turn[t].state \in Labels /\ turn[t].wstate \in Labels
            /\ turn[t].wstate # turn[t].state => <<turn[t].state, turn[t].wstate>> \in Edges
            /\ turn[t].wstate = "done" => turn[t].state = "ask_slot" /\ turn[t].created # 0

----------------------------------------------------------------------------
(* The branches of a turn, one message at a time *)

\* the turn read this state and has gone through its branch
Took(t, state) == turn[t].state = state /\ turn[t].pc \in {"write", "done"}

\* the turn returned its replies without a call of updateSession
WroteNothing(t) == turn[t].pc = "done" /\ turn[t].wstate = ""

\* the patients with a contact of the sender's phone in the clinic
LinkedTo(t) ==
    {k.patient_id : k \in {x \in contacts :
        x.clinic_id = ClinicOfWebhook /\ x.phone = turn[t].from}}

Range(s) == {s[i] : i \in 1..Len(s)}

\* C25: in idle a message with booking intent takes the session to
\* ask_family_member_name with empty context when it is marked as for someone
\* else; otherwise to ask_patient_or_other with empty context when no patient
\* is linked to the phone, to ask_patient_or_other with the patient's id when
\* one is linked, and to ask_existing_patient_choice with the candidates when
\* several are; a message without booking intent writes nothing.
C25_IdleBranches ==
    \A t \in Turns :
        Took(t, "idle") =>
            LET f == detectIntentAndFlags(turn[t].text)
                n == Cardinality(LinkedTo(t))
                w == turn[t].wcontext
            IN IF f.intent # "booking"
               THEN WroteNothing(t) /\ turn[t].replies = <<"greeting">>
               ELSE /\ turn[t].wstate # ""
                    /\ turn[t].pc = "write" =>
                         IF f.forOther
                         THEN turn[t].wstate = "ask_family_member_name" /\ w = EmptyContext
                         ELSE IF n = 0
                         THEN turn[t].wstate = "ask_patient_or_other" /\ w = EmptyContext
                         ELSE IF n = 1
                         THEN /\ turn[t].wstate = "ask_patient_or_other"
                              /\ LinkedTo(t) = {w.patient_id}
                              /\ w = [turn[t].context EXCEPT !.patient_id = w.patient_id]
                         ELSE /\ turn[t].wstate = "ask_existing_patient_choice"
                              /\ Range(w.patient_candidates) = LinkedTo(t)
                              /\ Len(w.patient_candidates) = n
                              /\ w = [turn[t].context EXCEPT
                                        !.patient_candidates = w.patient_candidates]

\* "book" from a phone with two patients: the turn is about to write
\* ask_existing_patient_choice with both as candidates
C25_Witness ==
    \E t \in Turns :
        /\ turn[t].state = "idle" /\ turn[t].pc = "write"
        /\ turn[t].text = "book"
        /\ Cardinality(LinkedTo(t)) = 2
        /\ turn[t].wstate = "ask_existing_patient_choice"
        /\ Len(turn[t].wcontext.patient_candidates) = 2

\* the other branches of idle are taken as well
C25_OtherBranches ==
    /\ \E t \in Turns : Took(t, "idle") /\ turn[t].text = "cancel" /\ WroteNothing(t)
    /\ \E t \in Turns : /\ turn[t].state = "idle" /\ turn[t].pc = "write"
                        /\ turn[t].text = "book" /\ Cardinality(LinkedTo(t)) = 1
                        /\ turn[t].wcontext.patient_id = 1

HandledStates == Labels \ {"done"}

\* C26: a message that arrives while the label of the session is none of the
\* eight handled states, done in particular, whatever its text, resets the
\* session to idle with empty context, commits no appointment and is answered
\* with the re-entry prompt.
C26_UnhandledStateResets ==
    \A t \in Turns :
        (turn[t].state \notin HandledStates /\ turn[t].pc \notin {"idle", "locked", "create", "dispatch"})
        => /\ turn[t].pc \in {"write", "done"}
           /\ turn[t].wstate = "idle" /\ turn[t].wcontext = EmptyContext
           /\ turn[t].replies = <<"not_understood">>
           /\ turn[t].created = 0
           /\ (turn[t].pc = "done" /\ \A u \in Turns \ {t} : turn[u].pc = "idle") =>
                 /\ \A i \in SessionIds(ClinicOfWebhook, turn[t].from) :
                        sessions[i].state = "idle" /\ sessions[i].context = EmptyContext
                 /\ appts = DoneAppts

\* "book" arrived for a session in done: the session is back in idle with an
\* empty context and the appointments are what they were
C26_Witness ==
    \E t \in Turns :
        /\ turn[t].state = "done" /\ turn[t].text = "book" /\ turn[t].pc = "done"
        /\ \A u \in Turns \ {t} : turn[u].pc = "idle"
        /\ \E i \in SessionIds(ClinicOfWebhook, turn[t].from) : sessions[i].state = "idle"
        /\ appts = DoneAppts

DateWords == {"today", "tomorrow"}

\* the text has the shape YYYY-MM-DD
DateLiterals == {"1970-01-05"}

\* the date a message of ask_date stands for
DateSaid(text) ==
    CASE text = "today" -> DateOf(now)
      [] text = "tomorrow" -> DateOf(now) + 1
      [] text = "1970-01-05" -> Monday

\* C27: in ask_date a text that is neither today, tomorrow nor a YYYY-MM-DD
\* literal writes nothing; a date for which generateAvailableSlots returns the
\* empty list keeps the state at ask_date; a date with a non-empty list takes
\* the session to ask_slot with exactly that list and that date in the
\* context; so ask_slot is never entered from ask_date with an empty list.
C27_DateBranches ==
    \A t \in Turns :
        turn[t].state = "ask_date" =>
            /\ turn[t].pc # "failed"
            /\ Took(t, "ask_date") =>
                 IF turn[t].text \notin DateWords \cup DateLiterals
                 THEN WroteNothing(t) /\ turn[t].replies = <<"invalid_date">>
                 ELSE /\ turn[t].wstate \in {"ask_date", "ask_slot"}
                      /\ turn[t].wstate = "ask_slot" => turn[t].wcontext.slots # <<>>
                      /\ turn[t].pc = "write" =>
                           LET list == generateAvailableSlots(turn[t].context.doctor_id,
                                                              DateSaid(turn[t].text), now, tz)
                               w == turn[t].wcontext
                           IN IF list = <<>>
                              THEN turn[t].wstate = "ask_date"
                              ELSE /\ turn[t].wstate = "ask_slot"
                                   /\ w = [turn[t].context EXCEPT
                                             !.selected_date = DateSaid(turn[t].text),
                                             !.slots = list]

\* the three cases: a text that is no date, a date without slots (tomorrow, or
\* today with both slots taken), and a literal date with a slot left
C27_Witness ==
    /\ \E t \in Turns : Took(t, "ask_date") /\ turn[t].text = "Sara Khan" /\ WroteNothing(t)
    /\ \E t \in Turns :
           /\ turn[t].state = "ask_date" /\ turn[t].pc = "write"
           /\ turn[t].text = "1970-01-05"
           /\ turn[t].wstate = "ask_slot"
           /\ Len(turn[t].wcontext.slots) = 1
           /\ turn[t].wcontext.selected_date = Monday

C27_EmptyWitness ==
    \E t \in Turns :
        /\ turn[t].state = "ask_date" /\ turn[t].pc = "write"
        /\ turn[t].text = "today" /\ appts = BothTaken
        /\ turn[t].wstate = "ask_date"

----------------------------------------------------------------------------
(* Ways out of a state *)

\* a session that asks for a number from a list that has no entry: every
\* number is outside 1..0
AsksFromNothing(row) ==
    \/ row.state = "ask_slot" /\ row.context.slots = <<>>
    \/ /\ row.state = "ask_doctor" /\ row.context.doctors = <<>>
       /\ fetchDoctorsSimple(row.clinic_id) = <<>>

\* the sessions the webhook's clinic holds
OurSessions == {i \in 1..Len(sessions) : sessions[i].clinic_id = ClinicOfWebhook}

\* C28: no session state is a dead end: some message, or sequence of messages,
\* takes the session on to idle or done; hence no session is ever left asking
\* for a choice from an empty list, which no message can answer.
C28_NoDeadEnd ==
    \A i \in OurSessions : ~AsksFromNothing(sessions[i])

\* whatever is sent to a session that asks for a choice from an empty list,
\* the session stays as it is
C28_DeadEndStays ==
    [][\A i \in OurSessions :
          AsksFromNothing(sessions[i]) => sessions'[i] = sessions[i]]_vars

\* a message was handled for a session stuck in ask_slot
C28_StuckWitness ==
    \E t \in Turns :
        /\ turn[t].state = "ask_slot" /\ turn[t].context.slots = <<>>
        /\ turn[t].pc = "done" /\ turn[t].replies = <<"invalid_slot">>

----------------------------------------------------------------------------
(* updateSettings *)

\* the body of PATCH /settings/:doctor_id: each field absent (NULL) or an
\* integer within the route's limits
SettingsUpdates ==
    [slot_minutes : {NULL, 20, 30}, lead_time_min : {NULL, 0, 30}, buffer_min : {NULL, 0, 10}]

\* updates.x || null
OrNull(x) == IF x = NULL \/ x = 0 THEN NULL ELSE x

\* COALESCE(a, b)
Coalesce(a, b) == IF a = NULL THEN b ELSE a

\* INSERT ... ON CONFLICT (doctor_id) DO UPDATE: the row of the doctor after
\* the statement
Upsert(row, u) ==
    LET p2 == OrNull(u.slot_minutes)
        p3 == OrNull(u.lead_time_min)
        p4 == OrNull(u.buffer_min)
    IN IF row = NoSettings
       THEN [slot_minutes |-> Coalesce(p2, DefaultSlotMinutes),
             lead_time_min |-> Coalesce(p3, DefaultLeadTimeMin),
             buffer_min |-> Coalesce(p4, DefaultBufferMin)]
       ELSE [slot_minutes |-> Coalesce(p2, row.slot_minutes),
             lead_time_min |-> Coalesce(p3, row.lead_time_min),
             buffer_min |-> Coalesce(p4, row.buffer_min)]

\* updateSettings(clinicId, doctorId, updates): assertDoctorInClinic, then the
\* upsert
updateSettings(c, d, u) ==
    /\ IF DoctorInClinic(d, c)
       THEN settings' = [settings EXCEPT ![d] = Upsert(settings[d], u)]
       ELSE UNCHANGED settings
    /\ UNCHANGED <<now, tz, wh, blocked, inbox, appts, apiVars, gen, peopleVars, convVars>>

InitSettings ==
    /\ now = At(Monday, 8, 15)
    /\ tz = 0
    /\ wh = {}
    /\ settings = [d \in Doctors |-> NoSettings]
    /\ blocked = {}
    /\ appts = <<>>
    /\ pc = [p \in Procs |-> "idle"]
    /\ call = [p \in Procs |-> NoCall]
    /\ gen = NoGen
    /\ patients = SeedPatients
    /\ contacts = {}
    /\ NoConversation

NextSettings == \E c \in Clinics, d \in Doctors, u \in SettingsUpdates : updateSettings(c, d, u)

SpecSettings == InitSettings /\ [][NextSettings]_vars

\* what the record of a doctor is to hold after a call with updates u
FieldAfter(old, supplied, default) ==
    IF supplied # NULL THEN supplied ELSE IF old = NULL THEN default ELSE old

\* C29: after an updateSettings call for a doctor the doctor has one settings
\* record in which each field supplied by the call has the supplied value, a
\* supplied 0 included, and each field not supplied keeps its value, or has the
\* default 15, 60 or 0 when there was no record.
C29_SettingsFollowUpdates ==
    [][\A c \in Clinics, d \in Doctors, u \in SettingsUpdates :
          (DoctorInClinic(d, c) /\ updateSettings(c, d, u)) =>
              /\ settings'[d].slot_minutes =
                     FieldAfter(settings[d].slot_minutes, u.slot_minutes, 15)
              /\ settings'[d].lead_time_min =
                     FieldAfter(settings[d].lead_time_min, u.lead_time_min, 60)
              /\ settings'[d].buffer_min =
                     FieldAfter(settings[d].buffer_min, u.buffer_min, 0)]_vars

\* the same for calls that supply no 0
C29_NonZeroFollowUpdates ==
    [][\A c \in Clinics, d \in Doctors, u \in SettingsUpdates :
          (/\ DoctorInClinic(d, c) /\ updateSettings(c, d, u)
           /\ u.lead_time_min # 0 /\ u.buffer_min # 0) =>
              /\ settings'[d].slot_minutes =
                     FieldAfter(settings[d].slot_minutes, u.slot_minutes, 15)
              /\ settings'[d].lead_time_min =
                     FieldAfter(settings[d].lead_time_min, u.lead_time_min, 60)
              /\ settings'[d].buffer_min =
                     FieldAfter(settings[d].buffer_min, u.buffer_min, 0)
              /\ \A e \in Doctors \ {d} : settings'[e] = settings[e]]_vars

----------------------------------------------------------------------------
(* What updateAppointment leaves alone *)

\* call p of updateAppointment has taken a step
UpdateStepped(p) == call'[p].kind = "update" /\ pc'[p] # pc[p]

\* C30: updateAppointment changes the range of an appointment only when start
\* and end are both supplied and the range passed validation; a call with
\* status only, or with one of start and end, leaves the range as stored; a
\* call that fails (validation, or an id that is not in the caller's clinic)
\* leaves every field of every appointment unchanged.
C30_UpdateFrame ==
    [][\A p \in Procs :
          UpdateStepped(p) =>
              LET c == call'[p]
                  id == c.appointmentId
              IN IF pc'[p] = "done" /\ c.result = "ok"
                 THEN /\ Len(appts') = Len(appts)
                      /\ \A i \in 1..Len(appts) : i # id => appts'[i] = appts[i]
                      /\ appts[id].clinic_id = c.clinicId
                      /\ appts'[id] = [appts[id] EXCEPT !.start = appts'[id].start,
                                                        !.end = appts'[id].end,
                                                        !.status = appts'[id].status]
                      /\ IF c.start # NULL /\ c.end # NULL
                         THEN /\ appts'[id].start = c.start /\ appts'[id].end = c.end
                              /\ InWorkingHours(appts[id].doctor_id, c.start, c.end)
                              /\ ~HitsBlocked(appts[id].doctor_id, c.start, c.end)
                         ELSE appts'[id].start = appts[id].start /\ appts'[id].end = appts[id].end
                 ELSE appts' = appts]_vars

\* a call with a start and no end has succeeded: the status is the one
\* supplied, the range is the one stored before
C30_Witness ==
    \E p \in Procs :
        /\ pc[p] = "done" /\ call[p].kind = "update" /\ call[p].result = "ok"
        /\ call[p].start # NULL /\ call[p].end = NULL
        /\ call[p].status = "confirmed"
        /\ OthersIdle({p})
        /\ appts[call[p].appointmentId].status = "confirmed"
        /\ appts[call[p].appointmentId].start = RA.lo
        /\ appts[call[p].appointmentId].end = RA.hi

\* calls that failed: the id belongs to no appointment of the clinic, or the
\* new range did not pass validation
C30_FailedWitness ==
    /\ \E p \in Procs : pc[p] = "done" /\ call[p].kind = "update"
                        /\ call[p].result = "NotFound" /\ call[p].clinicId = 2
    /\ \E p \in Procs : pc[p] = "done" /\ call[p].kind = "update"
                        /\ call[p].result = "SlotUnavailable"

====
